---- MODULE Spec2Model ----
(***************************************************************************)
(* Model of the nautilus arbitrage trader:                                 *)
(*   - the websocket feed clients (client/hyperliquid_client.py and        *)
(*     client/redstone_client.py): connect, message loop, heartbeat,       *)
(*     reconnect with backoff, disconnect;                                 *)
(*   - the REST gateway detector (client/redstone_gw_client.py);           *)
(*   - the strategy gate (src/arbitrage_strategy.py) and the execution     *)
(*     client it submits to (src/arbitrage_execution_client.py).           *)
(* Each part has its own next-state relation and specification over the    *)
(* same variables.                                                         *)
(***************************************************************************)
EXTENDS Integers, Sequences, FiniteSets, TLC

(***************************************************************************)
(* Bounds of the model.                                                    *)
(***************************************************************************)
\* transport objects that can be referenced at the same time
MaxTransports == 2
\* consecutive reconnect attempts counted exactly (the counter saturates)
MaxAttempts == 8
\* heartbeat tasks whose reference was overwritten, counted up to this
MaxOrphans == 1
\* message-loop tasks created and not yet started
MaxPendingLoops == 1
\* sources in one response of the gateway
MaxSources == 3
\* opportunities delivered to the strategy
MaxDeliveries == 2
\* orders handed to the execution client by the engine
MaxSubmitted == 2
\* orders handed to the mock execution client
MaxMockOrders == 2
\* fills the mock execution client of the other venue simulates
MaxOtherFills == 1
\* readings of the clock while messages are handled
MaxClock == 2

\* timestamps of export records are 1..MaxStamp
MaxStamp == 2

\* polling tasks the data client has created and not cancelled
MaxPollTasks == 2

Transports == 1..MaxTransports

Min(a, b) == IF a <= b THEN a ELSE b
Max(a, b) == IF a >= b THEN a ELSE b

RECURSIVE Pow2(_)
Pow2(n) == IF n <= 0 THEN 1 ELSE 2 * Pow2(n - 1)

VARIABLES
    \* ---- feed client (HyperliquidLiveDataClient / BinanceLiveDataClient)
    venue,          \* which client class this is
    websocket,      \* self._websocket: 0 is None, else a transport
    tstate,         \* per transport: "free", "open", "closedOk", "closedErr"
    loops,          \* transports a _handle_messages task is iterating over
    pendingLoops,   \* _handle_messages tasks created, first step not yet run
    reconnectRef,   \* self._reconnect_task is not None
    rtasks,         \* live _reconnect tasks, in creation order
    heartbeat,      \* the task self._heartbeat_task refers to is running
    orphans,        \* live heartbeat tasks the reference no longer points to
    leaked,         \* an open transport was left with nothing holding it
    ext,            \* the connect() task started from outside; fresh: nothing
                    \* existed when it was called
    dc,             \* the disconnect() task; rc: a reconnect task was live
                    \* when it was called
    \* ---- gateway detector (RedstoneGwClient), one polled symbol
    response,       \* sourceMetadata of the fetched data point, in JSON order
    processed,      \* _process_symbol_data has run on the response
    source_prices,  \* what _extract_source_prices returned
    opportunities,  \* what _find_arbitrage_opportunities returned
    published,      \* quotes put on the message bus for the response
    poll_error,     \* the exception _fetch_and_process_data logged for the poll
    \* ---- strategy gate (ArbitrageStrategy) and ArbitrageExecutionClient
    running,        \* the strategy: "initialized", "running" or "stopped"
    active_arbitrages,  \* self._active_arbitrages: symbol -> record
    orders,         \* every order handed to submit_order, with its task's state
    pending_orders, \* keys of self._pending_orders
    hyperliquid_connected,  \* self._hyperliquid_connected
    binance_connected,      \* self._binance_connected
    execpc,         \* where the execution client's _connect is
    deliveries,     \* opportunities handed to on_data so far
    last,           \* the opportunity handed to on_data last
    history,        \* of the orders the engine submitted itself: what held
                    \* when submit_order ran and during the task's sleeps
    \* ---- LoggingMockExecutionClient
    mock_connected, \* what _set_connected was last called with
    mock_orders,    \* every order handed to submit_order, with its outcome
    random,         \* the generator of the module random: how many numbers
                    \* it has given, and how many fills of the other venue's
                    \* client took numbers from it
    \* ---- _process_message of the two feed clients
    inbound,        \* the raw message handed to _process_message last
    quote_ticks,    \* the quote ticks put on the message bus for it
    \* ---- ArbitrageDataClient
    export_file,    \* arbitrage_export_latest.json as the next open() finds it
    last_processed_timestamp,   \* self._last_processed_timestamp
    subscribed_symbols,         \* self._subscribed_symbols
    handled,        \* what the poll that ran last handed to _handle_data
    poll_tasks,     \* polling tasks created and not cancelled
    data_task,      \* self._task: "none", "running" or "done"
    removed         \* symbols an unsubscribe call took out of the set and
                    \* no subscribe call has named since

feedVars == <<venue, websocket, tstate, loops, pendingLoops, reconnectRef, rtasks,
              heartbeat, orphans, leaked, ext, dc>>

detectVars == <<response, processed, source_prices, opportunities, published,
               poll_error>>

gateVars == <<running, active_arbitrages, orders, pending_orders, hyperliquid_connected,
              binance_connected, execpc, deliveries, last>>

simVars == <<history, mock_connected, mock_orders, random>>

normVars == <<inbound, quote_ticks>>

dataVars == <<export_file, last_processed_timestamp, subscribed_symbols, handled,
              poll_tasks, data_task, removed>>

vars == <<feedVars, detectVars, gateVars, simVars, normVars, dataVars>>

detectAndGateVars == <<detectVars, gateVars>>
feedAndGateVars == <<feedVars, gateVars>>
feedAndDetectVars == <<feedVars, detectVars>>

Venues == {"HYPERLIQUID", "BINANCE"}

\* _reconnect: max_backoff
max_backoff == 60
\* HyperliquidLiveDataClientConfig / BinanceLiveDataClientConfig: heartbeat_interval
heartbeat_interval == 30

NoTask == [pc |-> "idle", t |-> 0, fresh |-> FALSE]
NoDisc == [pc |-> "idle", t |-> 0, rc |-> FALSE]

(***************************************************************************)
(* Transports.  A transport is the object websockets.connect returns.  An  *)
(* identifier names an object while self._websocket or a task holds it; an *)
(* open transport nothing holds any more sets leaked and its identifier is *)
(* given back.  Identifiers are names only: after every step the objects   *)
(* in use are renumbered in a fixed order, so that two states that differ  *)
(* in the names alone are one state.                                       *)
(***************************************************************************)
RtaskTransports(rs) == {rs[i].t : i \in DOMAIN rs}

Held(w, lp, d, e, rs) == {w} \cup lp \cup {d.t} \cup {e.t} \cup RtaskTransports(rs)

Dropped(ts, held) == {t \in Transports : ts[t] = "open" /\ t \notin held}

StateCode(st) ==
    CASE st = "free" -> 0 [] st = "open" -> 1 [] st = "closedOk" -> 2 [] OTHER -> 3

Bit(b, n) == IF b THEN n ELSE 0

TransportOrders == Permutations(Transports)

\* the transports ts, self._websocket = w, the loops lp and the tasks d
\* (disconnect), e (outside connect) and rs (reconnect), with the transports
\* nothing holds given back and the others renumbered
Renumbered(ts, w, lp, d, e, rs) ==
    LET held == Held(w, lp, d, e, rs)
        held3 == RtaskTransports(rs)
        \* how a closed transport closed matters to the loop that reads it, and
        \* to the loop that may still bind to self._websocket
        kept == [t \in Transports |->
                   IF t \notin held THEN "free"
                   ELSE IF ts[t] = "closedErr" /\ t \notin lp /\ t # w THEN "closedOk"
                   ELSE ts[t]]
        key == [t \in Transports |->
                  (StateCode(kept[t]) + Bit(t \in lp, 4) + Bit(t = w, 8)
                   + Bit(t = d.t, 16) + Bit(t = e.t, 32) + Bit(t \in held3, 64))
                  * (MaxTransports + 1) + (MaxTransports - t)]
        \* order[k] is the transport that gets the number k
        order == CHOOSE q \in TransportOrders :
                    \A k \in 1..(MaxTransports - 1) : key[q[k]] > key[q[k + 1]]
        rn == [t \in 0..MaxTransports |->
                 IF t = 0 THEN 0 ELSE CHOOSE k \in Transports : order[k] = t]
    IN [ts |-> [k \in Transports |-> kept[order[k]]],
        w |-> rn[w],
        lp |-> {rn[t] : t \in lp},
        d |-> [d EXCEPT !.t = rn[@]],
        e |-> [e EXCEPT !.t = rn[@]],
        rs |-> [i \in DOMAIN rs |-> [rs[i] EXCEPT !.t = rn[@]]],
        drop |-> Dropped(ts, held) # {}]

CommitTo(c, more) ==
    /\ tstate' = c.ts
    /\ websocket' = c.w
    /\ loops' = c.lp
    /\ dc' = c.d
    /\ ext' = c.e
    /\ rtasks' = c.rs
    /\ leaked' = (leaked \/ c.drop \/ more)

\* the step leaves the transports ts, self._websocket = w, the loops lp, and the
\* tasks d, e and rs; more says that the assignment of self._websocket dropped
\* an open transport
Commit(ts, w, lp, d, e, rs, more) == CommitTo(Renumbered(ts, w, lp, d, e, rs), more)

FreeIds == {t \in Transports : tstate[t] = "free"}

\* the identifiers a newly opened transport can take: a free one, or the one
\* of the object self._websocket holds if nothing else holds it (the
\* assignment drops that object)
CandidateIds ==
    FreeIds \cup {t \in Transports : /\ t = websocket
                                     /\ t \notin loops \cup {dc.t, ext.t}
                                     /\ t \notin RtaskTransports(rtasks)}

NewTransport ==
    IF FreeIds # {} THEN CHOOSE t \in FreeIds : \A u \in FreeIds : t <= u
    ELSE websocket

\* the assignment drops an open transport whose identifier is taken over
Overwritten(n) == n = websocket /\ tstate[n] = "open"

IsClosed(t) == tstate[t] \in {"closedOk", "closedErr"}

RemoveAt(s, i) == [j \in 1..(Len(s) - 1) |-> IF j < i THEN s[j] ELSE s[j + 1]]

(***************************************************************************)
(* _connect, run by the outside connect() task and by _reconnect.          *)
(***************************************************************************)
\* _connect awaits _subscribe_to_all_mids after the open (Hyperliquid only)
HasHandshake(v) == v = "HYPERLIQUID"

\* a _connect that creates the tasks before the subscription on every venue
TasksStartAlways(v) == TRUE

\* the message loop and the heartbeat are created right after the open
\* (Binance), or only after the subscription was sent (Hyperliquid)
TasksStartAtOpen(v) == v = "BINANCE"

\* create_task(_handle_messages()); _heartbeat_task = create_task(_heartbeat())
CanStartTasks == pendingLoops < MaxPendingLoops

StartTasks ==
    /\ pendingLoops' = pendingLoops + 1
    /\ IF heartbeat_interval > 0
       THEN /\ heartbeat' = TRUE
            /\ orphans' = IF heartbeat THEN Min(orphans + 1, MaxOrphans)
                          ELSE orphans
       ELSE UNCHANGED <<heartbeat, orphans>>

NoTasks == UNCHANGED <<pendingLoops, heartbeat, orphans>>

\* a doubling without the cap
NextBackoffUncapped(b) == b * 2

\* what a failed attempt does to the backoff
NextBackoff(b) == Min(b * 2, max_backoff)

\* a loop that starts _reconnect whatever the reference holds
AlwaysStartReconnect(ref) == TRUE

\* how a loop that saw the transport close decides to start _reconnect
ShouldStartReconnect(ref) == ~ref

\* bound on the live reconnect tasks the model can hold
MaxReconnectTasks == 2

\* the client as __init__ leaves it: no transport, no task
FeedIdle ==
    /\ websocket = 0
    /\ \A t \in Transports : tstate[t] = "free"
    /\ loops = {}
    /\ pendingLoops = 0
    /\ ~reconnectRef
    /\ rtasks = <<>>
    /\ ~heartbeat
    /\ orphans = 0
    /\ dc.pc = "idle"

\* connect() is called from outside and websockets.connect returns:
\* self._websocket is assigned; on Hyperliquid the subscription is handed to
\* send() on that transport in the same step.  (The call and the wait for the
\* open change nothing another task can see, so they are part of this step.)
ExtOpenOk ==
    /\ ext.pc = "idle"
    /\ CandidateIds # {}
    /\ rtasks = <<>> \/ Cardinality(CandidateIds) >= 2
    /\ TasksStartAtOpen(venue) => CanStartTasks
    /\ LET n == NewTransport
           e2 == IF HasHandshake(venue)
                 THEN [pc |-> "subscribing", t |-> n, fresh |-> FeedIdle]
                 ELSE NoTask
       IN Commit([tstate EXCEPT ![n] = "open"], n, loops, dc, e2, rtasks,
                 Overwritten(n))
    /\ IF TasksStartAtOpen(venue) THEN StartTasks ELSE NoTasks
    /\ UNCHANGED <<venue, reconnectRef>>
    /\ UNCHANGED <<detectAndGateVars, simVars, normVars, dataVars>>

\* connect() is called and websockets.connect raises: _connect logs and
\* re-raises, nothing was assigned
ExtOpenFail ==
    /\ ext.pc = "idle"
    /\ UNCHANGED <<venue, websocket, tstate, loops, pendingLoops, reconnectRef,
                   rtasks, heartbeat, orphans, leaked, ext, dc>>
    /\ UNCHANGED <<detectAndGateVars, simVars, normVars, dataVars>>

\* the subscription was sent: the message loop and the heartbeat are created
ExtSubOk ==
    /\ ext.pc = "subscribing"
    /\ tstate[ext.t] = "open"
    /\ ~TasksStartAtOpen(venue) => CanStartTasks
    /\ Commit(tstate, websocket, loops, dc, NoTask, rtasks, FALSE)
    /\ IF TasksStartAtOpen(venue) THEN NoTasks ELSE StartTasks
    /\ UNCHANGED <<venue, reconnectRef>>
    /\ UNCHANGED <<detectAndGateVars, simVars, normVars, dataVars>>

\* send() raised (it does so on a closed connection): _connect re-raises
ExtSubFail ==
    /\ ext.pc = "subscribing"
    /\ IsClosed(ext.t)
    /\ Commit(tstate, websocket, loops, dc, NoTask, rtasks, FALSE)
    /\ UNCHANGED <<venue, pendingLoops, reconnectRef, heartbeat, orphans>>
    /\ UNCHANGED <<detectAndGateVars, simVars, normVars, dataVars>>

(***************************************************************************)
(* _reconnect                                                              *)
(***************************************************************************)
NewReconnect == [pc |-> "sleep", backoff |-> 1, slept |-> <<>>, t |-> 0]

\* a _reconnect that ends on the first failure
GiveUp(r) == [r EXCEPT !.pc = "gaveUp", !.t = 0]

\* the except branch of _reconnect: the next delay, and back to the sleep
Failed(r) == [r EXCEPT !.pc = "sleep", !.backoff = NextBackoff(r.backoff), !.t = 0]

\* the delays slept so far, with the one just slept
Slept(r) == IF Len(r.slept) < MaxAttempts THEN Append(r.slept, r.backoff) ELSE r.slept

\* asyncio.sleep(backoff) is over and websockets.connect returns
RcOpenOk(i) ==
    /\ rtasks[i].pc = "sleep"
    /\ CandidateIds # {}
    /\ TasksStartAtOpen(venue) => CanStartTasks
    /\ LET n == NewTransport
           rs2 == IF HasHandshake(venue)
                  THEN [rtasks EXCEPT ![i] = [@ EXCEPT !.pc = "subscribing", !.t = n,
                                                       !.slept = Slept(rtasks[i])]]
                  ELSE RemoveAt(rtasks, i)
       IN Commit([tstate EXCEPT ![n] = "open"], n, loops, dc, ext, rs2, Overwritten(n))
    /\ IF TasksStartAtOpen(venue) THEN StartTasks ELSE NoTasks
    /\ reconnectRef' = IF HasHandshake(venue) THEN reconnectRef ELSE FALSE
    /\ UNCHANGED <<venue>>
    /\ UNCHANGED <<detectAndGateVars, simVars, normVars, dataVars>>

\* asyncio.sleep(backoff) is over and websockets.connect raises
RcOpenFail(i) ==
    /\ rtasks[i].pc = "sleep"
    /\ rtasks' = [rtasks EXCEPT ![i] = Failed([@ EXCEPT !.slept = Slept(rtasks[i])])]
    /\ UNCHANGED <<venue, websocket, tstate, loops, pendingLoops, reconnectRef,
                   heartbeat, orphans, leaked, ext, dc>>
    /\ UNCHANGED <<detectAndGateVars, simVars, normVars, dataVars>>

\* _connect returned: self._reconnect_task = None; break
RcSubOk(i) ==
    /\ rtasks[i].pc = "subscribing"
    /\ tstate[rtasks[i].t] = "open"
    /\ ~TasksStartAtOpen(venue) => CanStartTasks
    /\ reconnectRef' = FALSE
    /\ Commit(tstate, websocket, loops, dc, ext, RemoveAt(rtasks, i), FALSE)
    /\ IF TasksStartAtOpen(venue) THEN NoTasks ELSE StartTasks
    /\ UNCHANGED <<venue>>
    /\ UNCHANGED <<detectAndGateVars, simVars, normVars, dataVars>>

RcSubFail(i) ==
    /\ rtasks[i].pc = "subscribing"
    /\ IsClosed(rtasks[i].t)
    /\ Commit(tstate, websocket, loops, dc, ext, [rtasks EXCEPT ![i] = Failed(@)], FALSE)
    /\ UNCHANGED <<venue, pendingLoops, reconnectRef, heartbeat, orphans>>
    /\ UNCHANGED <<detectAndGateVars, simVars, normVars, dataVars>>

(***************************************************************************)
(* _handle_messages                                                        *)
(***************************************************************************)
\* first step of a created loop task: `async for message in self._websocket`
\* binds to the transport the attribute holds then.  On None it raises
\* TypeError, and on a transport another loop is already receiving on recv()
\* raises; both end in the generic except branch, which only logs.
LoopStart ==
    /\ pendingLoops > 0
    /\ pendingLoops' = pendingLoops - 1
    /\ Commit(tstate, websocket,
              IF websocket # 0 THEN loops \cup {websocket} ELSE loops,
              dc, ext, rtasks, FALSE)
    /\ UNCHANGED <<venue, reconnectRef, heartbeat, orphans>>
    /\ UNCHANGED <<detectAndGateVars, simVars, normVars, dataVars>>

\* the iteration ends: silently after a normal closure, with ConnectionClosed
\* after any other, and then the except branch may create the reconnect task
LoopSeesClose(t) ==
    /\ t \in loops
    /\ IsClosed(t)
    /\ LET start == /\ tstate[t] = "closedErr"
                    /\ ShouldStartReconnect(reconnectRef)
                    /\ Len(rtasks) < MaxReconnectTasks
           rs2 == IF start THEN Append(rtasks, NewReconnect) ELSE rtasks
       IN /\ reconnectRef' = (reconnectRef \/ start)
          /\ Commit(tstate, websocket, loops \ {t}, dc, ext, rs2, FALSE)
    /\ UNCHANGED <<venue, pendingLoops, heartbeat, orphans>>
    /\ UNCHANGED <<detectAndGateVars, simVars, normVars, dataVars>>

\* the venue or the network closes an open transport
PeerClose(t, how) ==
    /\ tstate[t] = "open"
    /\ Commit([tstate EXCEPT ![t] = how], websocket, loops, dc, ext, rtasks, FALSE)
    /\ UNCHANGED <<venue, pendingLoops, reconnectRef, heartbeat, orphans>>
    /\ UNCHANGED <<detectAndGateVars, simVars, normVars, dataVars>>

(***************************************************************************)
(* _heartbeat                                                              *)
(***************************************************************************)
\* a tick finds self._websocket None, or sends the ping
HeartbeatTick ==
    /\ (heartbeat \/ orphans > 0)
    /\ (IF websocket = 0 THEN TRUE ELSE tstate[websocket] = "open")
    /\ UNCHANGED vars

\* a heartbeat that drops the transport when send() raises
HeartbeatFailsAndDrops ==
    /\ heartbeat
    /\ (IF websocket = 0 THEN FALSE ELSE IsClosed(websocket))
    /\ heartbeat' = FALSE
    /\ websocket' = 0
    /\ UNCHANGED <<venue, tstate, loops, pendingLoops, reconnectRef,
                   rtasks, orphans, leaked, ext, dc>>
    /\ UNCHANGED <<detectAndGateVars, simVars, normVars, dataVars>>

\* send() raised on the tick of the task the reference points to: break
HeartbeatFails ==
    /\ heartbeat
    /\ (IF websocket = 0 THEN FALSE ELSE IsClosed(websocket))
    /\ heartbeat' = FALSE
    /\ UNCHANGED <<venue, websocket, tstate, loops, pendingLoops, reconnectRef,
                   rtasks, orphans, leaked, ext, dc>>
    /\ UNCHANGED <<detectAndGateVars, simVars, normVars, dataVars>>

\* the same for a heartbeat task whose reference was overwritten
OrphanFails ==
    /\ orphans > 0
    /\ (IF websocket = 0 THEN FALSE ELSE IsClosed(websocket))
    /\ orphans' = orphans - 1
    /\ UNCHANGED <<venue, websocket, tstate, loops, pendingLoops, reconnectRef,
                   rtasks, heartbeat, leaked, ext, dc>>
    /\ UNCHANGED <<detectAndGateVars, simVars, normVars, dataVars>>

(***************************************************************************)
(* _disconnect                                                             *)
(***************************************************************************)
\* disconnect() is called: the heartbeat reference is cancelled; with no
\* transport it returns at once, else it awaits close() on self._websocket
DisconnectCall ==
    /\ dc.pc = "idle"
    /\ heartbeat' = FALSE
    /\ dc' = IF websocket = 0 THEN dc
             ELSE [pc |-> "closing", t |-> websocket, rc |-> rtasks # <<>>]
    /\ UNCHANGED <<venue, websocket, tstate, loops, pendingLoops, reconnectRef,
                   rtasks, orphans, leaked, ext>>
    /\ UNCHANGED <<detectAndGateVars, simVars, normVars, dataVars>>

\* close() returned: self._websocket = None
DisconnectEnd ==
    /\ dc.pc = "closing"
    /\ Commit([tstate EXCEPT ![dc.t] = IF @ = "open" THEN "closedOk" ELSE @],
              0, loops, NoDisc, ext, rtasks, FALSE)
    /\ UNCHANGED <<venue, pendingLoops, reconnectRef, heartbeat, orphans>>
    /\ UNCHANGED <<detectAndGateVars, simVars, normVars, dataVars>>

NextFeed ==
    \/ ExtOpenOk
    \/ ExtOpenFail
    \/ ExtSubOk
    \/ ExtSubFail
    \/ \E i \in DOMAIN rtasks : RcOpenOk(i)
    \/ \E i \in DOMAIN rtasks : RcOpenFail(i)
    \/ \E i \in DOMAIN rtasks : RcSubOk(i)
    \/ \E i \in DOMAIN rtasks : RcSubFail(i)
    \/ LoopStart
    \/ \E t \in Transports : LoopSeesClose(t)
    \/ \E t \in Transports, how \in {"closedOk", "closedErr"} : PeerClose(t, how)
    \/ HeartbeatTick
    \/ HeartbeatFails
    \/ OrphanFails
    \/ DisconnectCall
    \/ DisconnectEnd

(***************************************************************************)
(* The reconnect task under fair scheduling: every task that can take a    *)
(* step takes it, and an open and a subscription that can succeed again    *)
(* and again do succeed.                                                   *)
(***************************************************************************)
FairFeed ==
    /\ WF_vars(LoopStart)
    /\ WF_vars(\E t \in Transports : LoopSeesClose(t))
    /\ WF_vars(DisconnectEnd)
    /\ WF_vars(ExtSubOk)
    /\ WF_vars(ExtSubFail)
    /\ WF_vars(\E i \in DOMAIN rtasks : RcSubFail(i))
    /\ SF_vars(\E i \in DOMAIN rtasks : RcOpenOk(i))
    /\ SF_vars(\E i \in DOMAIN rtasks : RcSubOk(i))

\* the caller calls connect() on a client that runs no message loop and no
\* reconnect task and is not inside disconnect()
FeedQuiet == loops = {} /\ pendingLoops = 0 /\ rtasks = <<>> /\ dc.pc = "idle"

NextFeedFair ==
    \/ FeedQuiet /\ ExtOpenOk
    \/ FeedQuiet /\ ExtOpenFail
    \/ ExtSubOk
    \/ ExtSubFail
    \/ \E i \in DOMAIN rtasks : RcOpenOk(i)
    \/ \E i \in DOMAIN rtasks : RcOpenFail(i)
    \/ \E i \in DOMAIN rtasks : RcSubOk(i)
    \/ \E i \in DOMAIN rtasks : RcSubFail(i)
    \/ LoopStart
    \/ \E t \in Transports : LoopSeesClose(t)
    \/ \E t \in Transports, how \in {"closedOk", "closedErr"} : PeerClose(t, how)
    \/ HeartbeatTick
    \/ HeartbeatFails
    \/ OrphanFails
    \/ DisconnectCall
    \/ DisconnectEnd

(***************************************************************************)
(* Python floats.  A price is parsed with float() and the spread is        *)
(* computed in binary floating point: 53 significant bits, every result    *)
(* rounded to the nearest representable value, ties to the even mantissa.  *)
(* A natural number of any size is a tuple of six digits of base 2^15,     *)
(* least significant first; a float is a sign s, a mantissa m with         *)
(* 2^52 <= m < 2^53 and an exponent e, and stands for s * m * 2^e.         *)
(***************************************************************************)
LimbBase == 2^15

\* the naturals below 2^90
BigNat == [1..6 -> 0..(LimbBase - 1)]

BigZero == <<0, 0, 0, 0, 0, 0>>
BigOne == <<1, 0, 0, 0, 0, 0>>

\* a natural number below 2^31
Big(n) == <<n % LimbBase, (n \div LimbBase) % LimbBase, n \div (LimbBase * LimbBase),
            0, 0, 0>>

\* the most significant digit in which a and b differ; 0 if none
TopDiff[a \in BigNat, b \in BigNat] ==
    IF a[6] # b[6] THEN 6 ELSE IF a[5] # b[5] THEN 5 ELSE IF a[4] # b[4] THEN 4
    ELSE IF a[3] # b[3] THEN 3 ELSE IF a[2] # b[2] THEN 2 ELSE IF a[1] # b[1] THEN 1
    ELSE 0

BigLess[a \in BigNat, b \in BigNat] == LET h == TopDiff[a, b] IN IF h = 0 THEN FALSE ELSE a[h] < b[h]

BigGE[a \in BigNat, b \in BigNat] == ~BigLess[a, b]

\* 2 * a + bit
DblLimb(a, bit, i) ==
    (2 * a[i] + (IF i = 1 THEN bit ELSE IF 2 * a[i - 1] >= LimbBase THEN 1 ELSE 0))
    % LimbBase

BigDbl[a \in BigNat, bit \in {0, 1}] ==
    <<DblLimb(a, bit, 1), DblLimb(a, bit, 2), DblLimb(a, bit, 3),
      DblLimb(a, bit, 4), DblLimb(a, bit, 5), DblLimb(a, bit, 6)>>

\* the digits below i of a are less than those of b: digit i borrows
Borrow(a, b, i) ==
    \E j \in 1..(i - 1) : a[j] < b[j] /\ \A k \in (j + 1)..(i - 1) : a[k] = b[k]

SubLimb(a, b, i) ==
    (a[i] - b[i] - (IF Borrow(a, b, i) THEN 1 ELSE 0) + LimbBase) % LimbBase

\* a - b, for a >= b
BigSub[a \in BigNat, b \in BigNat] ==
    <<SubLimb(a, b, 1), SubLimb(a, b, 2), SubLimb(a, b, 3),
      SubLimb(a, b, 4), SubLimb(a, b, 5), SubLimb(a, b, 6)>>

\* the digits below i of a and b add up to a carry into digit i
Carry(a, b, i) ==
    \E j \in 1..(i - 1) : /\ a[j] + b[j] >= LimbBase
                          /\ \A k \in (j + 1)..(i - 1) : a[k] + b[k] = LimbBase - 1

AddLimb(a, b, i) == (a[i] + b[i] + (IF Carry(a, b, i) THEN 1 ELSE 0)) % LimbBase

BigAdd[a \in BigNat, b \in BigNat] ==
    <<AddLimb(a, b, 1), AddLimb(a, b, 2), AddLimb(a, b, 3),
      AddLimb(a, b, 4), AddLimb(a, b, 5), AddLimb(a, b, 6)>>

BigIsOdd[a \in BigNat] == a[1] % 2 = 1

\* the number of bits of a digit v
DigitBits(v) == Cardinality({k \in 0..14 : 2^k <= v})

\* the number of bits of a
BitLength[a \in BigNat] ==
    IF a[6] # 0 THEN 75 + DigitBits(a[6]) ELSE IF a[5] # 0 THEN 60 + DigitBits(a[5])
    ELSE IF a[4] # 0 THEN 45 + DigitBits(a[4]) ELSE IF a[3] # 0 THEN 30 + DigitBits(a[3])
    ELSE IF a[2] # 0 THEN 15 + DigitBits(a[2]) ELSE DigitBits(a[1])

\* digit i of a * 2^n
ShlLimb(a, n, i) ==
    LET j == i - (n \div 15)
        p == 2^(n % 15)
        hi == IF j >= 1 THEN (a[j] * p) % LimbBase ELSE 0
        lo == IF j >= 2 THEN (a[j - 1] * p) \div LimbBase ELSE 0
    IN hi + lo

\* a * 2^n, for a * 2^n below 2^90
BigShl[a \in BigNat, n \in Nat] ==
    <<ShlLimb(a, n, 1), ShlLimb(a, n, 2), ShlLimb(a, n, 3),
      ShlLimb(a, n, 4), ShlLimb(a, n, 5), ShlLimb(a, n, 6)>>

MantissaBits == 53

\* 2^52 and 2^53
MinMantissa == BigShl[BigOne, MantissaBits - 1]
MantissaLimit == BigShl[BigOne, MantissaBits]

FZero == [s |-> 0, m |-> BigZero, e |-> 0]

\* n and d scaled by powers of two until d <= n < 2 * d: n / d is multiplied
\* by 2^(-e)
Normalized[n \in BigNat, d \in BigNat] ==
    LET ln == BitLength[n]
        ld == BitLength[d]
        n1 == IF ln < ld THEN BigShl[n, ld - ln] ELSE n
        d1 == IF ln > ld THEN BigShl[d, ln - ld] ELSE d
    IN IF BigLess[n1, d1] THEN [n |-> BigDbl[n1, 0], d |-> d1, e |-> ln - ld - 1]
       ELSE [n |-> n1, d |-> d1, e |-> ln - ld]

QuotRem == [q : BigNat, r : BigNat]

\* one step of the long division: the next bit of the quotient
DivisionStep[qr \in QuotRem, d \in BigNat] ==
    LET r2 == BigDbl[qr.r, 0]
    IN IF BigGE[r2, d] THEN [q |-> BigDbl[qr.q, 1], r |-> BigSub[r2, d]]
       ELSE [q |-> BigDbl[qr.q, 0], r |-> r2]

\* long division, four bits at a time until the quotient has 53 bits
QuotientBits[qr \in QuotRem, d \in BigNat] ==
    IF BigGE[qr.q, MinMantissa] THEN qr
    ELSE QuotientBits[DivisionStep[DivisionStep[DivisionStep[DivisionStep[qr, d], d], d], d], d]

\* the quotient with its 53 bits, rounded by the remainder: up when the
\* remainder is above half of d, and to the even mantissa when it is half
RoundQuotient[qr \in QuotRem, d \in BigNat, e \in Int] ==
    LET twice == BigDbl[qr.r, 0]
        up == BigLess[d, twice] \/ (twice = d /\ BigIsOdd[qr.q])
        q == IF up THEN BigAdd[qr.q, BigOne] ELSE qr.q
    IN IF q = MantissaLimit
       THEN [s |-> 1, m |-> MinMantissa, e |-> e - (MantissaBits - 1) + 1]
       ELSE [s |-> 1, m |-> q, e |-> e - (MantissaBits - 1)]

RoundNormalized[nd \in [n : BigNat, d : BigNat, e : Int]] ==
    RoundQuotient[QuotientBits[[q |-> BigOne, r |-> BigSub[nd.n, nd.d]], nd.d], nd.d, nd.e]

\* the float nearest to n / d, for naturals n > 0 and d > 0
RoundRatio[n \in BigNat, d \in BigNat] == RoundNormalized[Normalized[n, d]]

\* float("n/d as a decimal"), for integers n and d > 0 below 2^31
ParseFloat(n, d) ==
    IF n = 0 THEN FZero
    ELSE IF n > 0 THEN RoundRatio[Big(n), Big(d)]
    ELSE [RoundRatio[Big(0 - n), Big(d)] EXCEPT !.s = -1]

Float == [s : {-1, 0, 1}, m : BigNat, e : Int]

\* x < y
FLess[x \in Float, y \in Float] ==
    IF x.s # y.s THEN x.s < y.s
    ELSE IF x.s = 0 THEN FALSE
    ELSE LET below == IF x.e # y.e THEN x.e < y.e ELSE BigLess[x.m, y.m]
             above == IF x.e # y.e THEN x.e > y.e ELSE BigLess[y.m, x.m]
         IN IF x.s = 1 THEN below ELSE above

FGE[x \in Float, y \in Float] == ~FLess[x, y]

FMin[x \in Float, y \in Float] == IF FLess[y, x] THEN y ELSE x
FMax[x \in Float, y \in Float] == IF FLess[x, y] THEN y ELSE x

\* the mantissas of x and y over their smaller exponent
Aligned[x \in Float, y \in Float] ==
    LET e0 == IF x.e < y.e THEN x.e ELSE y.e
    IN [a |-> BigShl[x.m, x.e - e0], b |-> BigShl[y.m, y.e - e0], e |-> e0]

Scaled[x \in Float, e \in Int] == [x EXCEPT !.e = @ + e]

\* x - y for floats x >= y > 0
FSub[x \in Float, y \in Float] ==
    LET ab == Aligned[x, y]
    IN IF ab.a = ab.b THEN FZero
       ELSE Scaled[RoundRatio[BigSub[ab.a, ab.b], BigOne], ab.e]

\* x + y for floats x > 0 and y > 0
FAdd[x \in Float, y \in Float] ==
    LET ab == Aligned[x, y]
    IN Scaled[RoundRatio[BigAdd[ab.a, ab.b], BigOne], ab.e]

\* x / 2
FHalf[x \in Float] == IF x.s = 0 THEN x ELSE Scaled[x, -1]

\* x / y for floats x >= 0 and y > 0
FDiv[x \in Float, y \in Float] ==
    IF x.s = 0 THEN FZero
    ELSE Scaled[RoundRatio[x.m, y.m], x.e - y.e]

(***************************************************************************)
(* Products, signed sums and the shortest decimal of a float: what         *)
(* random.uniform, the slippage factor and str() of the slipped price      *)
(* compute.                                                                *)
(***************************************************************************)
\* the carry out of digit i of a * v, for a digit v
MulCarry[a \in BigNat, v \in 0..(LimbBase - 1), i \in 0..6] ==
    IF i = 0 THEN 0 ELSE (a[i] * v + MulCarry[a, v, i - 1]) \div LimbBase

MulLimb(a, v, i) == (a[i] * v + MulCarry[a, v, i - 1]) % LimbBase

\* a * v, for a digit v and a * v below 2^90
BigMulLimb[a \in BigNat, v \in 0..(LimbBase - 1)] ==
    <<MulLimb(a, v, 1), MulLimb(a, v, 2), MulLimb(a, v, 3),
      MulLimb(a, v, 4), MulLimb(a, v, 5), MulLimb(a, v, 6)>>

\* a * 2^15
LimbUp[a \in BigNat] == <<0, a[1], a[2], a[3], a[4], a[5]>>

\* a divided by 2^30, the remainder dropped
TwoLimbsDown[a \in BigNat] == <<a[3], a[4], a[5], a[6], 0, 0>>

\* a * (b[i] + b[i + 1] * 2^15 + ...), the digits of b from the i-th on
MulFrom[a \in BigNat, b \in BigNat, i \in 1..6] ==
    IF i = 6 THEN BigMulLimb[a, b[6]]
    ELSE BigAdd[BigMulLimb[a, b[i]], LimbUp[MulFrom[a, b, i + 1]]]

\* a * b, for a * b below 2^90
BigMul[a \in BigNat, b \in BigNat] == MulFrom[a, b, 1]

\* a * b with its last 30 bits cut off, for mantissas a and b, and whether
\* the bits cut off were all 0
MantissaProduct[a \in BigNat, b \in BigNat] ==
    LET low == BigMul[a, <<b[1], b[2], 0, 0, 0, 0>>]
    IN [top |-> BigAdd[BigMul[a, <<b[3], b[4], 0, 0, 0, 0>>], TwoLimbsDown[low]],
        exact |-> low[1] = 0 /\ low[2] = 0]

\* the high part of a product of mantissas, and whether the low part is zero
ProductParts == [top : BigNat, exact : BOOLEAN]

\* the float nearest to top + 1/2 when the product is not exact, to top
\* when it is: the bits cut off decide a tie only
RoundProduct[p \in ProductParts] ==
    RoundRatio[BigDbl[p.top, IF p.exact THEN 0 ELSE 1], Big(2)]

\* x * y
FMul[x \in Float, y \in Float] ==
    IF x.s = 0 \/ y.s = 0 THEN FZero
    ELSE [Scaled[RoundProduct[MantissaProduct[x.m, y.m]], x.e + y.e + 30]
            EXCEPT !.s = x.s * y.s]

FAbs[x \in Float] == IF x.s = 0 THEN x ELSE [x EXCEPT !.s = 1]

FNeg[x \in Float] == [x EXCEPT !.s = 0 - x.s]

\* x + y for floats of any sign
FPlus[x \in Float, y \in Float] ==
    IF x.s = 0 THEN y
    ELSE IF y.s = 0 THEN x
    ELSE IF x.s = y.s THEN [FAdd[FAbs[x], FAbs[y]] EXCEPT !.s = x.s]
    ELSE IF FAbs[x] = FAbs[y] THEN FZero
    ELSE IF FLess[FAbs[x], FAbs[y]] THEN [FSub[FAbs[y], FAbs[x]] EXCEPT !.s = y.s]
    ELSE [FSub[FAbs[x], FAbs[y]] EXCEPT !.s = x.s]

\* digit i of a divided by 2^n, the remainder dropped
ShrLimb(a, n, i) ==
    LET j == i + (n \div 15)
        p == 2^(n % 15)
        lo == IF j <= 6 THEN a[j] \div p ELSE 0
        hi == IF j + 1 <= 6 THEN (a[j + 1] % p) * (LimbBase \div p) ELSE 0
    IN lo + hi

BigShr[a \in BigNat, n \in Nat] ==
    <<ShrLimb(a, n, 1), ShrLimb(a, n, 2), ShrLimb(a, n, 3),
      ShrLimb(a, n, 4), ShrLimb(a, n, 5), ShrLimb(a, n, 6)>>

\* what a / 2^n leaves: the quotient and the remainder
ShrParts[a \in BigNat, n \in Nat] ==
    [q |-> BigShr[a, n], r |-> BigSub[a, BigShl[BigShr[a, n], n]]]

\* the quotient rounded by the remainder: up when the remainder is above
\* half, and to the even quotient when it is half
RoundParts[qr \in QuotRem, half \in BigNat] ==
    IF BigLess[half, qr.r] \/ (qr.r = half /\ BigIsOdd[qr.q])
    THEN BigAdd[qr.q, BigOne] ELSE qr.q

\* a / 2^n rounded to the nearest integer
RoundShr[a \in BigNat, n \in Nat] ==
    IF n = 0 THEN a ELSE RoundParts[ShrParts[a, n], BigShl[BigOne, n - 1]]

\* b^k for a digit b
BigPow[b \in 0..(LimbBase - 1), k \in Nat] ==
    IF k = 0 THEN BigOne ELSE BigMulLimb[BigPow[b, k - 1], b]

\* a decimal: n / 10^k
Decimal == [n : BigNat, k : Nat]

\* the most decimal places the str() of a float with two or more integer
\* digits has
MaxPlaces == 15

\* the decimal of k places nearest to a float x with 10 <= x < 2^52, as the
\* integer x * 10^k rounded: x * 10^k is m * 5^k * 2^(e + k)
Nearest[x \in Float, k \in 1..MaxPlaces] ==
    IF x.e + k >= 0 THEN BigShl[BigMul[x.m, BigPow[5, k]], x.e + k]
    ELSE RoundShr[BigMul[x.m, BigPow[5, k]], 0 - (x.e + k)]

\* float() of that decimal gives x back
RoundTrips[x \in Float, k \in 1..MaxPlaces] ==
    RoundRatio[Nearest[x, k], BigPow[10, k]] = x

\* the fewest places from k on with which the decimal gives x back
PlacesFrom[x \in Float, k \in 1..MaxPlaces] ==
    IF RoundTrips[x, k] THEN k ELSE PlacesFrom[x, k + 1]

\* str(x) read as a decimal, for a float 10 <= x < 2^52: the shortest
\* decimal that float() turns into x, with one place at least
Repr[x \in Float] == [n |-> Nearest[x, PlacesFrom[x, 1]], k |-> PlacesFrom[x, 1]]

(***************************************************************************)
(* RedstoneGwClient: one polled symbol.  response is the sourceMetadata of *)
(* the fetched data point, source by source in the order of the JSON       *)
(* object; a price in it is a decimal with two places, written in cents.   *)
(***************************************************************************)
\* RestDataClientConfig.profit_threshold = 0.002, as a fraction
ThresholdNum == 2
ThresholdDen == 1000

profit_threshold == ParseFloat(ThresholdNum, ThresholdDen)

CentsPerUnit == 100

\* sources the responses name; _initialize_instruments knows all but the third
SourceNames == <<"binance-usdt", "kraken-usd", "bybit-usdt", "okx-usdt">>

common_sources ==
    {"binance-usdt", "bitget-usdt", "bitmart-usdt", "kraken-usd", "kucoin-usdt",
     "lbank-usdt", "okx-usdt", "bitfinex-usd", "coinbase-usd",
     "uniswap-v3-ethereum-weth-3000"}

\* what a source's metadata holds: keys says which of 'value' and
\* tradeInfo's 'bidPrice' and 'askPrice' are present, bad that the 'value'
\* is no number
Value(c) == [keys |-> {"value"}, bad |-> FALSE, value |-> c, bid |-> 0, ask |-> 0]
BadValue == [keys |-> {"value"}, bad |-> TRUE, value |-> 0, bid |-> 0, ask |-> 0]
BidAsk(b, a) == [keys |-> {"bidPrice", "askPrice"}, bad |-> FALSE, value |-> 0,
                 bid |-> b, ask |-> a]
BidOnly(b) == [keys |-> {"bidPrice"}, bad |-> FALSE, value |-> 0, bid |-> b, ask |-> 0]
AskOnly(a) == [keys |-> {"askPrice"}, bad |-> FALSE, value |-> 0, bid |-> 0, ask |-> a]

\* the metadata each source can send
Quotes ==
    <<  <<Value(1000), Value(10000), Value(0)>>,
        <<Value(1002), Value(10019), BadValue>>,
        <<Value(10030), Value(10020), BidAsk(9990, 10010)>>,
        <<Value(-500), BidOnly(10030), AskOnly(1000)>>  >>

NoOpportunities == <<>>

(***************************************************************************)
(* _extract_source_prices                                                  *)
(***************************************************************************)
\* the sources whose data gave a price: no entry for a source with neither
\* key, and none for one whose value float() refuses
HasPrice(data) == IF "value" \in data.keys THEN ~data.bad ELSE data.keys # {}

ExtractPrice(data) ==
    IF "value" \in data.keys THEN ParseFloat(data.value, CentsPerUnit)
    ELSE IF data.keys = {"bidPrice", "askPrice"}
         THEN FHalf[FAdd[ParseFloat(data.bid, CentsPerUnit),
                         ParseFloat(data.ask, CentsPerUnit)]]
    ELSE IF "bidPrice" \in data.keys THEN ParseFloat(data.bid, CentsPerUnit)
    ELSE ParseFloat(data.ask, CentsPerUnit)

RECURSIVE ExtractFrom(_, _)
ExtractFrom(meta, i) ==
    IF i > Len(meta) THEN <<>>
    ELSE (IF HasPrice(meta[i].data)
          THEN <<[source |-> meta[i].source, price |-> ExtractPrice(meta[i].data)]>>
          ELSE <<>>) \o ExtractFrom(meta, i + 1)

\* the dict source -> price, in insertion order
ExtractSourcePrices(meta) == ExtractFrom(meta, 1)

(***************************************************************************)
(* _find_arbitrage_opportunities                                           *)
(***************************************************************************)
\* a detector that compares with no threshold
AnySpread(pct) == TRUE

\* price_diff_pct >= self._config.profit_threshold
MeetsThreshold(pct) == FGE[pct, profit_threshold]

\* a detector that lets a price of zero through: if min_price >= 0
NonNegativeMin(min_price) == min_price.s # -1

\* if min_price > 0
PositiveMin(min_price) == min_price.s = 1

\* (max_price - min_price) / min_price raises ZeroDivisionError for the pair:
\* the division is reached with a lower price of zero
DivisionRaises(s1, s2) ==
    LET min_price == FMin[s1.price, s2.price]
    IN PositiveMin(min_price) /\ min_price.s = 0

\* if price1 < price2: buy at source1, else buy at source2
BuyFirst(price1, price2) == FLess[price1, price2]

\* a detector that appends every pair it looks at
PairUnchecked(s1, s2) ==
    <<[buy_source |-> s1.source, sell_source |-> s2.source, buy_price |-> s1.price,
       sell_price |-> s2.price, profit |-> FZero]>>

\* the body of the inner loop for the pair (s1, s2): what is appended
PairOpportunities(s1, s2) ==
    LET min_price == FMin[s1.price, s2.price]
        max_price == FMax[s1.price, s2.price]
    IN IF ~PositiveMin(min_price) THEN <<>>
       ELSE LET price_diff_pct == FDiv[FSub[max_price, min_price], min_price]
            IN IF ~MeetsThreshold(price_diff_pct) THEN <<>>
               ELSE IF BuyFirst(s1.price, s2.price)
                    THEN <<[buy_source |-> s1.source, sell_source |-> s2.source,
                            buy_price |-> s1.price, sell_price |-> s2.price,
                            profit |-> price_diff_pct]>>
                    ELSE <<[buy_source |-> s2.source, sell_source |-> s1.source,
                            buy_price |-> s2.price, sell_price |-> s1.price,
                            profit |-> price_diff_pct]>>

\* for i in range(len(sources)): for j in range(i + 1, len(sources))
RECURSIVE FindFrom(_, _, _)
FindFrom(sp, i, j) ==
    IF i > Len(sp) THEN <<>>
    ELSE IF j > Len(sp) THEN FindFrom(sp, i + 1, i + 2)
    ELSE PairOpportunities(sp[i], sp[j]) \o FindFrom(sp, i, j + 1)

FindArbitrageOpportunities(sp) == FindFrom(sp, 1, 2)

\* the exception that leaves _find_arbitrage_opportunities; it has no try
FindRaises(sp) ==
    IF \E i \in DOMAIN sp, j \in DOMAIN sp : i < j /\ DivisionRaises(sp[i], sp[j])
    THEN "ZeroDivisionError" ELSE "none"

(***************************************************************************)
(* _publish_arbitrage_opportunity: the quotes put on the message bus.  Of  *)
(* a quote the model keeps the source, the leg and the price taken from    *)
(* the opportunity.                                                        *)
(***************************************************************************)
PublishOne(o) ==
    (IF o.buy_source \in common_sources
     THEN <<[source |-> o.buy_source, leg |-> "buy", price |-> o.buy_price]>>
     ELSE <<>>)
    \o (IF o.sell_source \in common_sources
        THEN <<[source |-> o.sell_source, leg |-> "sell", price |-> o.sell_price]>>
        ELSE <<>>)

RECURSIVE PublishFrom(_, _)
PublishFrom(opps, k) ==
    IF k > Len(opps) THEN <<>> ELSE PublishOne(opps[k]) \o PublishFrom(opps, k + 1)

(***************************************************************************)
(* _process_symbol_data                                                    *)
(***************************************************************************)
\* the next source of the response that is being fetched
GwResponseEntry(i, k) ==
    /\ ~processed
    /\ Len(response) < MaxSources
    /\ \A n \in DOMAIN response : response[n].source # SourceNames[i]
    /\ response' = Append(response, [source |-> SourceNames[i], data |-> Quotes[i][k]])
    /\ UNCHANGED <<processed, source_prices, opportunities, published, poll_error>>
    /\ UNCHANGED <<feedAndGateVars, simVars, normVars, dataVars>>

\* _fetch_and_process_data hands the fetched metadata to _process_symbol_data
ProcessSymbolData ==
    /\ ~processed
    /\ processed' = TRUE
    /\ source_prices' = ExtractSourcePrices(response)
    /\ poll_error' = IF Len(source_prices') < 2 THEN "none" ELSE FindRaises(source_prices')
    /\ opportunities' = IF Len(source_prices') < 2 \/ poll_error' # "none"
                        THEN NoOpportunities
                        ELSE FindArbitrageOpportunities(source_prices')
    /\ published' = PublishFrom(opportunities', 1)
    /\ UNCHANGED response
    /\ UNCHANGED <<feedAndGateVars, simVars, normVars, dataVars>>

\* the polling loop sleeps and fetches again
GwNextPoll ==
    /\ processed
    /\ response' = <<>>
    /\ processed' = FALSE
    /\ source_prices' = <<>>
    /\ opportunities' = NoOpportunities
    /\ published' = <<>>
    /\ poll_error' = "none"
    /\ UNCHANGED <<feedAndGateVars, simVars, normVars, dataVars>>

NextDetect ==
    \/ \E i \in DOMAIN SourceNames : \E k \in DOMAIN Quotes[i] : GwResponseEntry(i, k)
    \/ ProcessSymbolData
    \/ GwNextPoll

(***************************************************************************)
(* ArbitrageStrategy (the gate) and ArbitrageExecutionClient.  Profit is   *)
(* in hundredths of a percent, age in microseconds, a quantity in          *)
(* hundredths of a unit.                                                   *)
(***************************************************************************)
\* ArbitrageStrategy.__init__: min_profit_threshold = 0.5, max_position_size = 1000.0
min_profit_threshold == 50
max_position_size == 1000

\* _should_execute_arbitrage: opportunity_age_ms > 5000
MaxAgeMs == 5000
MicrosPerMs == 1000

\* _execute_arbitrage: min(..., 100.0)
MaxUnits == 100
HundredthsPerUnit == 100

Opp(sym, pct, age, price, dir) ==
    [symbol |-> sym, percentage_difference |-> pct, age |-> age,
     hyperliquid_price |-> price, direction |-> dir]

\* the opportunities the data client can deliver
OpportunityMenu ==
    {Opp("BTC", 51, 0, 50000, "BUY_HL_SELL_BN"),
     Opp("BTC", 50, 5000000, 20, "BUY_BN_SELL_HL"),
     Opp("BTC", 49, 0, 50000, "BUY_HL_SELL_BN"),
     Opp("BTC", 51, 5000001, 50000, "BUY_HL_SELL_BN"),
     Opp("BTC", 51, 0, 0, "BUY_HL_SELL_BN"),
     Opp("ETH", 51, 0, 50000, "BUY_BN_SELL_HL"),
     Opp("ETH", 50, 5000000, 20, "BUY_HL_SELL_BN")}

NoOpp == Opp("", 0, 0, 0, "")

\* the keys of the dict self._active_arbitrages
ActiveSymbols == DOMAIN active_arbitrages

(***************************************************************************)
(* _should_execute_arbitrage                                               *)
(***************************************************************************)
\* float(record['percentageDifference']) of the opportunities delivered, and
\* the float 0.5 of the threshold
PercentFloat ==
    [p \in {o.percentage_difference : o \in OpportunityMenu} \cup {min_profit_threshold}
        |-> ParseFloat(p, HundredthsPerUnit)]

\* a gate that turns away a profit equal to the minimum as well
AtOrBelowThreshold(o) ==
    ~FLess[PercentFloat[min_profit_threshold], PercentFloat[o.percentage_difference]]

\* opportunity.percentage_difference < self.min_profit_threshold
BelowThreshold(o) ==
    FLess[PercentFloat[o.percentage_difference], PercentFloat[min_profit_threshold]]

\* (current_time - opportunity.timestamp_ns) / 1_000_000: the quotient of two
\* integers as a float, and the float 5000
AgeMsFloat == [a \in {o.age : o \in OpportunityMenu} |-> ParseFloat(a, MicrosPerMs)]

MaxAgeFloat == ParseFloat(MaxAgeMs, 1)

\* a gate that turns away an age of exactly five seconds as well
OldFromBoundary(o) == FGE[AgeMsFloat[o.age], MaxAgeFloat]

\* opportunity_age_ms > 5000
TooOld(o) == FLess[MaxAgeFloat, AgeMsFloat[o.age]]

ShouldExecuteArbitrage(o) ==
    IF BelowThreshold(o) THEN FALSE
    ELSE IF TooOld(o) THEN FALSE
    ELSE TRUE

\* a gate that looks at no record
NeverActive(sym) == FALSE

\* if opportunity.symbol in self._active_arbitrages
AlreadyActive(sym) == sym \in ActiveSymbols

(***************************************************************************)
(* _execute_arbitrage                                                      *)
(***************************************************************************)
\* the division raises ZeroDivisionError on a price of 0
SizingRaises(o) == o.hyperliquid_price = 0

\* min(self.max_position_size / opportunity.hyperliquid_price, 100.0)
PositionSize(o) ==
    Min((max_position_size * HundredthsPerUnit) \div o.hyperliquid_price,
        MaxUnits * HundredthsPerUnit)

VenueConnected(v) ==
    IF v = "HYPERLIQUID" THEN hyperliquid_connected ELSE binance_connected

\* what submit_order does with a venue
Recognized(v) == v \in {"HYPERLIQUID", "BINANCE"}

\* an order handed to ArbitrageExecutionClient.submit_order: price is its limit
\* price in ten-thousandths, 0 for an order without one (a MarketOrder); state
\* is "task" while the task created for it has not run, "pending" during the
\* first sleep, "accepted" during the second, then "filled", or "rejected";
\* fill is the price of the fill.
SubmittedOrder(sym, v, side, qty, price, n) ==
    [symbol |-> sym, venue |-> v, side |-> side, quantity |-> qty, price |-> price,
     delivery |-> n, state |-> IF Recognized(v) THEN "task" ELSE "rejected",
     fill |-> 0]

\* MarketOrder(...): an order without a price
NewOrder(o, v, side, qty, n) == SubmittedOrder(o.symbol, v, side, qty, 0, n)

\* _execute_buy_hyperliquid_sell_binance / _execute_buy_binance_sell_hyperliquid:
\* the two orders in the order of the submit_order calls
ArbitrageOrders(o, qty, n) ==
    IF o.direction = "BUY_HL_SELL_BN"
    THEN <<NewOrder(o, "HYPERLIQUID", "BUY", qty, n), NewOrder(o, "BINANCE", "SELL", qty, n)>>
    ELSE <<NewOrder(o, "BINANCE", "BUY", qty, n), NewOrder(o, "HYPERLIQUID", "SELL", qty, n)>>

\* self._active_arbitrages[symbol] = {...}
Recorded(o, qty, n) ==
    [s \in ActiveSymbols \cup {o.symbol} |->
        IF s = o.symbol THEN [opportunity |-> o, quantity |-> qty, delivery |-> n]
        ELSE active_arbitrages[s]]

ExecuteArbitrage(o, n) ==
    IF SizingRaises(o)
    THEN UNCHANGED <<active_arbitrages, orders>>
    ELSE /\ orders' = orders \o ArbitrageOrders(o, PositionSize(o), n)
         /\ active_arbitrages' = Recorded(o, PositionSize(o), n)

(***************************************************************************)
(* on_data / _handle_arbitrage_opportunity                                 *)
(***************************************************************************)
HandleArbitrageOpportunity(o) ==
    /\ running = "running"
    /\ deliveries < MaxDeliveries
    /\ deliveries' = deliveries + 1
    /\ last' = o
    /\ IF ~ShouldExecuteArbitrage(o) THEN UNCHANGED <<active_arbitrages, orders>>
       ELSE IF AlreadyActive(o.symbol) THEN UNCHANGED <<active_arbitrages, orders>>
       ELSE ExecuteArbitrage(o, deliveries + 1)
    /\ UNCHANGED <<running, pending_orders, hyperliquid_connected, binance_connected,
                   execpc>>
    /\ UNCHANGED <<feedAndDetectVars, simVars, normVars, dataVars>>

\* self.submit_order(...) of the library raises at the first call (1) or at
\* the second (2): the orders submitted before the exception left the helper
SubmitCalls == {1, 2}

SubmittedBeforeRaise(o, qty, n, raised_at) ==
    SubSeq(ArbitrageOrders(o, qty, n), 1, raised_at - 1)

\* _execute_arbitrage when a submit_order call raises: the except clause logs,
\* the assignment to _active_arbitrages after the helper is not reached
ExecuteArbitrageSubmitRaises(o, n, raised_at) ==
    /\ orders' = orders \o SubmittedBeforeRaise(o, PositionSize(o), n, raised_at)
    /\ UNCHANGED active_arbitrages

\* on_data / _handle_arbitrage_opportunity for an opportunity that reaches the
\* submit_order calls, one of which raises
HandleArbitrageOpportunitySubmitRaises(o, raised_at) ==
    /\ running = "running"
    /\ deliveries < MaxDeliveries
    /\ ShouldExecuteArbitrage(o)
    /\ ~AlreadyActive(o.symbol)
    /\ ~SizingRaises(o)
    /\ deliveries' = deliveries + 1
    /\ last' = o
    /\ ExecuteArbitrageSubmitRaises(o, deliveries + 1, raised_at)
    /\ UNCHANGED <<running, pending_orders, hyperliquid_connected, binance_connected,
                   execpc>>
    /\ UNCHANGED <<feedAndDetectVars, simVars, normVars, dataVars>>

OnStart ==
    /\ running = "initialized"
    /\ running' = "running"
    /\ UNCHANGED <<active_arbitrages, orders, pending_orders, hyperliquid_connected,
                   binance_connected, execpc, deliveries, last>>
    /\ UNCHANGED <<feedAndDetectVars, simVars, normVars, dataVars>>

\* on_stop: _close_all_positions deletes every record
OnStop ==
    /\ running = "running"
    /\ running' = "stopped"
    /\ active_arbitrages' = <<>>
    /\ UNCHANGED <<orders, pending_orders, hyperliquid_connected, binance_connected,
                   execpc, deliveries, last>>
    /\ UNCHANGED <<feedAndDetectVars, simVars, normVars, dataVars>>

(***************************************************************************)
(* ArbitrageExecutionClient                                                *)
(***************************************************************************)
\* _connect: _connect_hyperliquid sleeps, then sets its flag
ExecConnectCall ==
    /\ execpc = "idle"
    /\ execpc' = "hyperliquid"
    /\ UNCHANGED <<running, active_arbitrages, orders, pending_orders,
                   hyperliquid_connected, binance_connected, deliveries, last>>
    /\ UNCHANGED <<feedAndDetectVars, simVars, normVars, dataVars>>

ExecConnectHyperliquid ==
    /\ execpc = "hyperliquid"
    /\ hyperliquid_connected' = TRUE
    /\ execpc' = "binance"
    /\ UNCHANGED <<running, active_arbitrages, orders, pending_orders,
                   binance_connected, deliveries, last>>
    /\ UNCHANGED <<feedAndDetectVars, simVars, normVars, dataVars>>

ExecConnectBinance ==
    /\ execpc = "binance"
    /\ binance_connected' = TRUE
    /\ execpc' = "idle"
    /\ UNCHANGED <<running, active_arbitrages, orders, pending_orders,
                   hyperliquid_connected, deliveries, last>>
    /\ UNCHANGED <<feedAndDetectVars, simVars, normVars, dataVars>>

\* the tasks that are in one of their sleeps
Sleeping(id) == orders[id].state \in {"pending", "accepted"}

\* _disconnect clears the two flags and touches no task
ExecDisconnect ==
    /\ hyperliquid_connected \/ binance_connected
    /\ hyperliquid_connected' = FALSE
    /\ binance_connected' = FALSE
    /\ history' = [id \in DOMAIN history |->
                     IF Sleeping(id) THEN [history[id] EXCEPT !.cut = TRUE]
                     ELSE history[id]]
    /\ UNCHANGED <<running, active_arbitrages, orders, pending_orders, execpc,
                   deliveries, last>>
    /\ UNCHANGED <<feedAndDetectVars, mock_connected, mock_orders, random, normVars, dataVars>>

\* self._handle_event(event): the event joins those of the order, for the
\* orders whose events are recorded
HandleEvent(id, event) ==
    [i \in DOMAIN history |->
        IF i = id THEN [history[i] EXCEPT !.events = Append(@, event)] ELSE history[i]]

\* a task that makes no entry in _pending_orders
OrderTaskStartsUnlisted(id) ==
    /\ orders[id].state = "task"
    /\ orders' = [orders EXCEPT ![id].state =
                     IF VenueConnected(orders[id].venue) THEN "pending" ELSE "rejected"]
    /\ history' = IF VenueConnected(orders[id].venue) THEN history
                  ELSE HandleEvent(id, "OrderRejected")
    /\ UNCHANGED <<running, active_arbitrages, pending_orders, hyperliquid_connected,
                   binance_connected, execpc, deliveries, last>>
    /\ UNCHANGED <<feedAndDetectVars, mock_connected, mock_orders, random, normVars, dataVars>>

\* first step of _submit_hyperliquid_order / _submit_binance_order: rejected
\* when the venue is not connected, else entered in _pending_orders
OrderTaskStarts(id) ==
    /\ orders[id].state = "task"
    /\ IF VenueConnected(orders[id].venue)
       THEN /\ orders' = [orders EXCEPT ![id].state = "pending"]
            /\ pending_orders' = pending_orders \cup {id}
       ELSE /\ orders' = [orders EXCEPT ![id].state = "rejected"]
            /\ pending_orders' = pending_orders \ {id}
    /\ history' = IF VenueConnected(orders[id].venue) THEN history
                  ELSE HandleEvent(id, "OrderRejected")
    /\ UNCHANGED <<running, active_arbitrages, hyperliquid_connected,
                   binance_connected, execpc, deliveries, last>>
    /\ UNCHANGED <<feedAndDetectVars, mock_connected, mock_orders, random, normVars, dataVars>>

\* after the first sleep: _generate_order_accepted
OrderAccepted(id) ==
    /\ orders[id].state = "pending"
    /\ orders' = [orders EXCEPT ![id].state = "accepted"]
    /\ history' = HandleEvent(id, "OrderAccepted")
    /\ UNCHANGED <<running, active_arbitrages, pending_orders, hyperliquid_connected,
                   binance_connected, execpc, deliveries, last>>
    /\ UNCHANGED <<feedAndDetectVars, mock_connected, mock_orders, random, normVars, dataVars>>

\* Price.from_str("100.00"), in ten-thousandths
MockPrice == 1000000

\* order.price if hasattr(order, 'price') and order.price else the mock price
FillPrice(order) == IF order.price # 0 THEN order.price ELSE MockPrice

\* a task that fills the order after its first sleep, with no acceptance
OrderFilledUnaccepted(id) ==
    /\ orders[id].state = "pending"
    /\ orders' = [orders EXCEPT ![id].state = "filled", ![id].fill = FillPrice(orders[id])]
    /\ pending_orders' = pending_orders \ {id}
    /\ history' = HandleEvent(id, "OrderFilled")
    /\ UNCHANGED <<running, active_arbitrages, hyperliquid_connected,
                   binance_connected, execpc, deliveries, last>>
    /\ UNCHANGED <<feedAndDetectVars, mock_connected, mock_orders, random, normVars, dataVars>>

\* after the second sleep: _generate_order_filled
OrderFilled(id) ==
    /\ orders[id].state = "accepted"
    /\ orders' = [orders EXCEPT ![id].state = "filled", ![id].fill = FillPrice(orders[id])]
    /\ pending_orders' = pending_orders \ {id}
    /\ history' = HandleEvent(id, "OrderFilled")
    /\ UNCHANGED <<running, active_arbitrages, hyperliquid_connected,
                   binance_connected, execpc, deliveries, last>>
    /\ UNCHANGED <<feedAndDetectVars, mock_connected, mock_orders, random, normVars, dataVars>>

\* submit_order called by the execution engine for an order of any strategy:
\* a task for a recognized venue, OrderRejected at once for any other
ExecSubmitOrder(v, price) ==
    /\ Len(orders) < MaxSubmitted
    /\ orders' = Append(orders, SubmittedOrder("BTC", v, "BUY", HundredthsPerUnit, price, 0))
    /\ history' = [id \in DOMAIN history \cup {Len(orders) + 1} |->
                     IF id \in DOMAIN history THEN history[id]
                     ELSE [cut |-> FALSE,
                           events |-> IF Recognized(v) THEN <<>>
                                      ELSE <<"OrderRejected">>]]
    /\ UNCHANGED <<running, active_arbitrages, pending_orders, hyperliquid_connected,
                   binance_connected, execpc, deliveries, last>>
    /\ UNCHANGED <<feedAndDetectVars, mock_connected, mock_orders, random, normVars, dataVars>>

\* the venues and the limit prices of the orders submitted: a venue the client
\* does not know among them, and 100.07 and no price
SubmittedVenues == {"HYPERLIQUID", "BINANCE", "KRAKEN"}

SubmittedPrices == {0, 1000700}

NextExec ==
    \/ \E v \in SubmittedVenues, price \in SubmittedPrices : ExecSubmitOrder(v, price)
    \/ ExecConnectCall
    \/ ExecConnectHyperliquid
    \/ ExecConnectBinance
    \/ ExecDisconnect
    \/ \E id \in DOMAIN orders : OrderTaskStarts(id)
    \/ \E id \in DOMAIN orders : OrderAccepted(id)
    \/ \E id \in DOMAIN orders : OrderFilled(id)

NextGate ==
    \/ \E o \in OpportunityMenu : HandleArbitrageOpportunity(o)
    \/ OnStart
    \/ OnStop
    \/ ExecConnectCall
    \/ ExecConnectHyperliquid
    \/ ExecConnectBinance
    \/ ExecDisconnect
    \/ \E id \in DOMAIN orders : OrderTaskStarts(id)
    \/ \E id \in DOMAIN orders : OrderAccepted(id)
    \/ \E id \in DOMAIN orders : OrderFilled(id)

(***************************************************************************)
(* LoggingMockExecutionClient.  A price is in ten-thousandths (the         *)
(* instruments have price_precision 4); the price of a fill is the decimal *)
(* that Price.from_str reads from str() of the slipped float.              *)
(***************************************************************************)
\* _simulate_order_fill: random.random() < 0.05, random.random() < 0.95
RejectionPercent == 5
FillPercent == 95
PercentDen == 100

rejection_chance == ParseFloat(RejectionPercent, PercentDen)
fill_chance == ParseFloat(FillPercent, PercentDen)

\* _simulate_order_fill_event: random.uniform(-0.0005, 0.0005)
SlippageNum == 5
SlippageDen == 10000

slippage_bound == ParseFloat(SlippageNum, SlippageDen)

\* Price.from_str("50000.00"), in ten-thousandths
MarketPrice == 500000000

TenThousandths == 10000

\* values random.random() returns: 0, 1/2 and 31/32
RandomValues == <<[n |-> 0, d |-> 1], [n |-> 1, d |-> 2], [n |-> 31, d |-> 32]>>

Draws == DOMAIN RandomValues

RandomFloat == [i \in Draws |-> ParseFloat(RandomValues[i].n, RandomValues[i].d)]

\* the limit prices of the orders submitted: none, 100.07 and 66946.6699
MockPrices == {0, 1000700, 669466699}

\* random.uniform(a, b) is a + (b - a) * random.random()
Uniform[a \in Float, b \in Float, r \in Float] == FPlus[a, FMul[FPlus[b, FNeg[a]], r]]

\* slippage_factor = 1 + random.uniform(-0.0005, 0.0005)
SlippageFactor ==
    [i \in Draws |->
        FPlus[ParseFloat(1, 1), Uniform[FNeg[slippage_bound], slippage_bound, RandomFloat[i]]]]

\* the price the fill starts from: order.price if the order has one
BasePrice(price) == IF price # 0 THEN price ELSE MarketPrice

\* Price.from_str(str(float(fill_price) * slippage_factor))
SlippedPrice ==
    [price \in MockPrices, i \in Draws |->
        Repr[FMul[ParseFloat(BasePrice(price), TenThousandths), SlippageFactor[i]]]]

NoFill == [n |-> BigZero, k |-> 0]

\* submit_order: the acceptance is simulated at once, then the task is created;
\* connected is what is_connected was when the order came in
NewMockOrder(price) ==
    [price |-> price, connected |-> mock_connected, accepted |-> TRUE, state |-> "task",
     rejection_draw |-> 0, slippage_draw |-> 0, fill |-> NoFill, position |-> 0]

MockConnect ==
    /\ ~mock_connected
    /\ mock_connected' = TRUE
    /\ UNCHANGED <<history, mock_orders, random>>
    /\ UNCHANGED <<feedVars, detectVars, gateVars, normVars, dataVars>>

MockDisconnect ==
    /\ mock_connected
    /\ mock_connected' = FALSE
    /\ UNCHANGED <<history, mock_orders, random>>
    /\ UNCHANGED <<feedVars, detectVars, gateVars, normVars, dataVars>>

MockSubmitOrder(price) ==
    /\ Len(mock_orders) < MaxMockOrders
    /\ mock_orders' = Append(mock_orders, NewMockOrder(price))
    /\ UNCHANGED <<history, mock_connected, random>>
    /\ UNCHANGED <<feedVars, detectVars, gateVars, normVars, dataVars>>

\* random.random() < 0.95
FillDrawn(second) == FLess[RandomFloat[second], fill_chance]

\* random.random() < 0.05
RejectionDrawn(first) == FLess[RandomFloat[first], rejection_chance]

\* the calls _simulate_order_fill makes to the generator: one when the
\* rejection is drawn, three for a fill, two otherwise
NumbersTaken(first, second) ==
    IF RejectionDrawn(first) THEN 1 ELSE IF FillDrawn(second) THEN 3 ELSE 2

\* the generator before anything was drawn
FreshRandom == [taken |-> 0, elsewhere |-> 0]

\* _simulate_order_fill after its sleep, with the three numbers it draws: the
\* rejection, or the fill at the slipped price, or neither.  The numbers are
\* the next ones of the generator of the module random; position is how many
\* the generator had given before.
MockSimulateOrderFill(id, first, second, third) ==
    /\ mock_orders[id].state = "task"
    /\ mock_orders' =
         [mock_orders EXCEPT ![id] =
            IF RejectionDrawn(first)
            THEN [@ EXCEPT !.state = "rejected", !.rejection_draw = first,
                           !.position = random.taken]
            ELSE IF FillDrawn(second)
            THEN [@ EXCEPT !.state = "filled", !.rejection_draw = first,
                           !.slippage_draw = third,
                           !.fill = SlippedPrice[mock_orders[id].price, third],
                           !.position = random.taken]
            ELSE [@ EXCEPT !.state = "not filled", !.rejection_draw = first,
                           !.position = random.taken]]
    /\ random' = [random EXCEPT !.taken = @ + NumbersTaken(first, second)]
    /\ UNCHANGED <<history, mock_connected>>
    /\ UNCHANGED <<feedVars, detectVars, gateVars, normVars, dataVars>>

\* _simulate_order_fill of the client main.py creates for the other venue:
\* its numbers come from the same generator
OtherVenueSimulatesFill(first, second) ==
    /\ random.elsewhere < MaxOtherFills
    /\ random' = [taken |-> random.taken + NumbersTaken(first, second),
                  elsewhere |-> random.elsewhere + 1]
    /\ UNCHANGED <<history, mock_connected, mock_orders>>
    /\ UNCHANGED <<feedVars, detectVars, gateVars, normVars, dataVars>>

NextMock ==
    \/ MockConnect
    \/ MockDisconnect
    \/ \E price \in MockPrices : MockSubmitOrder(price)
    \/ \E id \in DOMAIN mock_orders : \E first \in Draws, second \in Draws, third \in Draws :
         MockSimulateOrderFill(id, first, second, third)
    \/ \E first \in Draws, second \in Draws : OtherVenueSimulatesFill(first, second)

(***************************************************************************)
(* _process_message of HyperliquidLiveDataClient and BinanceLiveDataClient *)
(* and _publish_arbitrage_opportunity of RedstoneGwClient: the quote ticks *)
(* one inbound message puts on the message bus.  A price of a message is   *)
(* a decimal with two places, written in cents; a price of a quote tick is *)
(* a Decimal.  at is what self._clock.timestamp_ns() returns while the     *)
(* message is handled; again records that the message is the one the       *)
(* client was handed just before; raised is the exception that left        *)
(* _process_message.                                                       *)
(***************************************************************************)
\* config.SYMBOLS, the symbol list of the venues
SYMBOLS == {"BTC", "ETH"}

\* the readings of the clock
Times == 1..MaxClock

\* the message is the one the client was handed just before
Replay(v, m) == inbound.venue = v /\ inbound.msg = m

\* no message yet
NoMessage == [venue |-> "", msg |-> <<>>, at |-> 0, raised |-> "none", again |-> FALSE]

\* Price.from_str of a decimal with two places
PriceFromStr(cents) == [n |-> Big(cents), k |-> 2]

\* Price.from_str("0")
ZeroPrice == [n |-> BigZero, k |-> 0]

\* Quantity.from_str("1"), the size a ticker without one is given
DefaultSize == 1

QuoteTick(v, symbol, bid, ask, bid_size, ask_size, ts_event, ts_init) ==
    [venue |-> v, symbol |-> symbol, bid_price |-> bid, ask_price |-> ask,
     bid_size |-> bid_size, ask_size |-> ask_size, ts_event |-> ts_event,
     ts_init |-> ts_init]

\* the classes `except Exception` catches, of those the handlers can raise
ExceptionClasses == {"JSONDecodeError", "AttributeError", "TypeError", "ValueError"}

\* a handler that catches the decoding error only
EscapesUnlessDecodeError(raised) ==
    IF raised = "JSONDecodeError" THEN "none" ELSE raised

\* try: ... except Exception as e: self._log.error(...): what of an exception
\* raised in the body reaches the caller
Escapes(raised) == IF raised \in ExceptionClasses THEN "none" ELSE raised

\* the entries of the mids of an allMids message: bad is a mid price that
\* Price.from_str refuses
Mid(symbol, cents) == [symbol |-> symbol, bad |-> FALSE, mid |-> cents]
BadMid(symbol) == [symbol |-> symbol, bad |-> TRUE, mid |-> 0]

\* a frame of the Hyperliquid socket that is a JSON object; has_time says
\* whether its data carries a "time"
HyperliquidObject(channel, has_data, has_time, mids) ==
    [form |-> "object", channel |-> channel, has_data |-> has_data,
     has_time |-> has_time, time |-> IF has_time THEN 1 ELSE 0, mids |-> mids]

\* a frame that is no JSON object: form is "garbage" for a text json.loads
\* refuses and "array" for a JSON array
OtherFrame(form) ==
    [form |-> form, channel |-> "", has_data |-> FALSE, has_time |-> FALSE, time |-> 0,
     mids |-> <<>>]

\* the frames the Hyperliquid socket delivers; the keys of mids are distinct
HyperliquidMessages ==
    {OtherFrame("garbage"), OtherFrame("array"),
     HyperliquidObject("pong", FALSE, FALSE, <<>>),
     HyperliquidObject("allMids", FALSE, FALSE, <<>>),
     HyperliquidObject("subscriptionResponse", TRUE, FALSE, <<>>)}
    \cup {HyperliquidObject("allMids", TRUE, has_time, <<e1, e2>>) :
             has_time \in BOOLEAN,
             e1 \in {Mid("BTC", 10000), Mid("DOGE", 10), BadMid("BTC")},
             e2 \in {Mid("ETH", 10010), Mid("PEPE", 1), Mid("ETH", 10000)}}

\* a tick with sizes as of a two-sided quote
SizedTick(e, ts_event, now) ==
    QuoteTick("HYPERLIQUID", e.symbol, PriceFromStr(e.mid), PriceFromStr(e.mid), 1, 1,
              ts_event, now)

\* the QuoteTick of one entry of the mids
MidTick(e, ts_event, now) ==
    QuoteTick("HYPERLIQUID", e.symbol, PriceFromStr(e.mid), PriceFromStr(e.mid), 0, 0,
              ts_event, now)

\* for symbol_str, mid_price_str in mids.items(): the ticks published from
\* entry i on; an entry Price.from_str refuses is logged and passed over
RECURSIVE AllMidsFrom(_, _, _)
AllMidsFrom(data, i, now) ==
    IF i > Len(data.mids) THEN <<>>
    ELSE (IF data.mids[i].symbol \notin SYMBOLS THEN <<>>
          ELSE IF data.mids[i].bad THEN <<>>
          ELSE <<MidTick(data.mids[i], IF data.has_time THEN data.time ELSE now, now)>>)
         \o AllMidsFrom(data, i + 1, now)

HandleAllMidsData(data, now) == AllMidsFrom(data, 1, now)

\* what the body of the try of _process_message raises: json.loads on a text
\* that is no JSON, data.get on a JSON array
HyperliquidRaises(m) ==
    IF m.form = "garbage" THEN "JSONDecodeError"
    ELSE IF m.form = "array" THEN "AttributeError"
    ELSE "none"

HyperliquidProcessMessage(m, now) ==
    /\ now >= inbound.at
    /\ inbound' = [venue |-> "HYPERLIQUID", msg |-> m, at |-> now,
                   raised |-> Escapes(HyperliquidRaises(m)),
                   again |-> Replay("HYPERLIQUID", m)]
    /\ quote_ticks' = IF m.form = "object" /\ m.channel = "allMids" /\ m.has_data
                      THEN HandleAllMidsData(m, now) ELSE <<>>
    /\ UNCHANGED <<feedVars, detectVars, gateVars, simVars, dataVars>>

\* the keys a ticker can carry, and the values they carry when present
TickerKeys == {"s", "b", "a", "B", "A"}
TickerSymbols == {"BTCUSDT", "DOGEUSDT"}
TickerPrices == {10000, 10010}
TickerSizes == {2}

\* the tickers the Binance socket delivers; a key that is absent holds nothing
Tickers ==
    {[keys |-> ks,
      s |-> IF "s" \in ks THEN s ELSE "",
      b |-> IF "b" \in ks THEN b ELSE 0,
      a |-> IF "a" \in ks THEN a ELSE 0,
      B |-> IF "B" \in ks THEN B ELSE 0,
      A |-> IF "A" \in ks THEN A ELSE 0] :
        ks \in SUBSET TickerKeys, s \in TickerSymbols, b \in TickerPrices,
        a \in TickerPrices, B \in TickerSizes, A \in TickerSizes}

NoTicker == [keys |-> {}, s |-> "", b |-> 0, a |-> 0, B |-> 0, A |-> 0]

\* the frames the Binance socket delivers: a ticker, bare or as the "data"
\* of a combined-stream message, and frames that are no JSON object:
\* "garbage" a text json.loads refuses, "number" a JSON number
BinanceMessages ==
    {[form |-> "object", wrapped |-> w, ticker |-> t] : w \in BOOLEAN, t \in Tickers}
    \cup {[form |-> f, wrapped |-> FALSE, ticker |-> NoTicker] : f \in {"garbage", "number"}}

\* ticker_data.get("s").replace("USDT", "")
BaseSymbol(s) == IF s = "BTCUSDT" THEN "BTC" ELSE IF s = "DOGEUSDT" THEN "DOGE" ELSE s

\* _handle_ticker_data: get("s") of a ticker without the key is None, its
\* replace raises, and the handler logs the error; SYMBOLS is not looked at
HandleTickerData(t, now) ==
    IF "s" \notin t.keys THEN <<>>
    ELSE <<QuoteTick("BINANCE", BaseSymbol(t.s),
                     IF "b" \in t.keys THEN PriceFromStr(t.b) ELSE ZeroPrice,
                     IF "a" \in t.keys THEN PriceFromStr(t.a) ELSE ZeroPrice,
                     IF "B" \in t.keys THEN t.B ELSE DefaultSize,
                     IF "A" \in t.keys THEN t.A ELSE DefaultSize, now, now)>>

\* what the body of the try of _process_message raises: json.loads on a text
\* that is no JSON, `"data" in data` on a JSON number
BinanceRaises(m) ==
    IF m.form = "garbage" THEN "JSONDecodeError"
    ELSE IF m.form = "number" THEN "TypeError"
    ELSE "none"

\* _process_message: the ticker is data["data"] of a combined-stream message,
\* or the message itself when that has an "s"
BinanceProcessMessage(m, now) ==
    /\ now >= inbound.at
    /\ inbound' = [venue |-> "BINANCE", msg |-> m, at |-> now,
                   raised |-> Escapes(BinanceRaises(m)),
                   again |-> Replay("BINANCE", m)]
    /\ quote_ticks' = IF m.form = "object" /\ (m.wrapped \/ "s" \in m.ticker.keys)
                      THEN HandleTickerData(m.ticker, now) ELSE <<>>
    /\ UNCHANGED <<feedVars, detectVars, gateVars, simVars, dataVars>>

\* the literals 0.9995 and 1.0005 of _publish_arbitrage_opportunity
LowerNum == 9995
UpperNum == 10005
FactorDen == 10000

\* the opportunities the gateway client publishes: prices in cents
GatewayOpportunities ==
    {[buy_source |-> bs, sell_source |-> ss, buy_price |-> p[1], sell_price |-> p[2]] :
        bs \in {"binance-usdt", "bybit-usdt"}, ss \in {"kraken-usd", "bybit-usdt"},
        p \in {<<10000, 10030>>, <<10019, 12345>>}}

\* Price.from_str(str(price)) and Price.from_str(str(price * factor))
GatewayPrice == [c \in {o.buy_price : o \in GatewayOpportunities}
                          \cup {o.sell_price : o \in GatewayOpportunities}
                    |-> Repr[ParseFloat(c, CentsPerUnit)]]

GatewayBid == [c \in {o.buy_price : o \in GatewayOpportunities}
                  |-> Repr[FMul[ParseFloat(c, CentsPerUnit), ParseFloat(LowerNum, FactorDen)]]]

GatewayAsk == [c \in {o.sell_price : o \in GatewayOpportunities}
                  |-> Repr[FMul[ParseFloat(c, CentsPerUnit), ParseFloat(UpperNum, FactorDen)]]]

\* source.replace('-usdt', '').upper() of _initialize_instruments
SourceVenue(source) ==
    IF source = "binance-usdt" THEN "BINANCE"
    ELSE IF source = "kraken-usd" THEN "KRAKEN" ELSE source

\* Symbol(f"{symbol}/{quote_currency.code}") of _initialize_instruments
SourceSymbol(source) == IF source = "kraken-usd" THEN "BTC/USD" ELSE "BTC/USDT"

\* the two quote ticks of an opportunity, for the sources that have an instrument
GatewayQuoteTicks(o, now) ==
    (IF o.buy_source \in common_sources
     THEN <<QuoteTick(SourceVenue(o.buy_source), SourceSymbol(o.buy_source),
                      GatewayBid[o.buy_price], GatewayPrice[o.buy_price], 1, 1, now, now)>>
     ELSE <<>>)
    \o (IF o.sell_source \in common_sources
        THEN <<QuoteTick(SourceVenue(o.sell_source), SourceSymbol(o.sell_source),
                         GatewayPrice[o.sell_price], GatewayAsk[o.sell_price], 1, 1,
                         now, now)>>
        ELSE <<>>)

PublishArbitrageOpportunity(o, now) ==
    /\ now >= inbound.at
    /\ inbound' = [venue |-> "GATEWAY", msg |-> o, at |-> now, raised |-> "none",
                   again |-> Replay("GATEWAY", o)]
    /\ quote_ticks' = GatewayQuoteTicks(o, now)
    /\ UNCHANGED <<feedVars, detectVars, gateVars, simVars, dataVars>>

NextNormalize ==
    \/ \E m \in HyperliquidMessages, now \in Times : HyperliquidProcessMessage(m, now)
    \/ \E m \in BinanceMessages, now \in Times : BinanceProcessMessage(m, now)
    \/ \E o \in GatewayOpportunities, now \in Times : PublishArbitrageOpportunity(o, now)

(***************************************************************************)
(* ArbitrageDataClient: polling of the opportunity export                  *)
(***************************************************************************)
Stamps == 1..MaxStamp

\* one element of the exported JSON list; a record that is not well formed
\* lacks a field or holds a price float() does not take
ExportRecord(symbol, timestamp) ==
    [symbol |-> symbol, timestamp |-> timestamp, well_formed |-> TRUE]

MalformedRecord(timestamp) ==
    [symbol |-> "", timestamp |-> timestamp, well_formed |-> FALSE]

ExportRecords ==
    {ExportRecord(symbol, timestamp) : symbol \in SYMBOLS, timestamp \in Stamps}
        \cup {MalformedRecord(timestamp) : timestamp \in Stamps}

NoFile == [state |-> "missing", data |-> <<>>]

Unreadable == [state |-> "unreadable", data |-> <<>>]

ExportList(data) == [state |-> "list", data |-> data]

\* the export as the scanner leaves it: absent, not JSON, or a list of records
ExportFiles ==
    {NoFile, Unreadable, ExportList(<<>>)}
        \cup {ExportList(<<a>>) : a \in ExportRecords}
        \cup {ExportList(<<a, b>>) : a \in ExportRecords, b \in ExportRecords}

NanosPerMs == 1000000

\* ArbitrageOpportunity(symbol=record['symbol'], ...,
\*                      timestamp_ns=int(record['timestamp'] * 1_000_000))
FetchedOpportunity(record) ==
    [symbol |-> record.symbol, timestamp_ns |-> record.timestamp * NanosPerMs]

\* for record in data: the comparison reads self._last_processed_timestamp as
\* the records before it left it; a record that raises ends the scan, and the
\* opportunities collected before it are returned
RECURSIVE FetchFrom(_, _, _, _)
FetchFrom(data, i, watermark, found) ==
    IF i > Len(data)
    THEN [opportunities |-> found, last_processed_timestamp |-> watermark]
    ELSE IF data[i].timestamp > watermark
    THEN IF data[i].well_formed
         THEN FetchFrom(data, i + 1, Max(watermark, data[i].timestamp),
                        Append(found, FetchedOpportunity(data[i])))
         ELSE [opportunities |-> found, last_processed_timestamp |-> watermark]
    ELSE FetchFrom(data, i + 1, watermark, found)

\* _fetch_new_opportunities: FileNotFoundError and every other exception give
\* what was collected
FetchNewOpportunities(file, watermark) ==
    IF file.state = "list"
    THEN FetchFrom(file.data, 1, watermark, <<>>)
    ELSE [opportunities |-> <<>>, last_processed_timestamp |-> watermark]

\* if opp.symbol in self._subscribed_symbols or not self._subscribed_symbols
PassesFilter(opp) == opp.symbol \in subscribed_symbols \/ subscribed_symbols = {}

\* one turn of the loop of _poll_arbitrage_opportunities, up to its sleep
PollArbitrageOpportunities ==
    /\ poll_tasks > 0
    /\ LET fetched == FetchNewOpportunities(export_file, last_processed_timestamp)
       IN /\ last_processed_timestamp' = fetched.last_processed_timestamp
          /\ handled' = SelectSeq(fetched.opportunities, PassesFilter)
    /\ UNCHANGED <<export_file, subscribed_symbols, poll_tasks, data_task, removed>>
    /\ UNCHANGED <<feedVars, detectVars, gateVars, simVars, normVars>>

\* subscribe_arbitrage_opportunities(symbols); no symbols: subscribe to all
SubscribeArbitrageOpportunities(symbols) ==
    /\ subscribed_symbols' = IF symbols # {} THEN subscribed_symbols \cup symbols ELSE {}
    /\ removed' = IF symbols # {} THEN removed \ symbols ELSE {}
    /\ UNCHANGED <<export_file, last_processed_timestamp, handled, poll_tasks, data_task>>
    /\ UNCHANGED <<feedVars, detectVars, gateVars, simVars, normVars>>

\* unsubscribe_arbitrage_opportunities(symbols)
UnsubscribeArbitrageOpportunities(symbols) ==
    /\ subscribed_symbols' = subscribed_symbols \ symbols
    /\ removed' = removed \cup (symbols \cap subscribed_symbols)
    /\ UNCHANGED <<export_file, last_processed_timestamp, handled, poll_tasks, data_task>>
    /\ UNCHANGED <<feedVars, detectVars, gateVars, simVars, normVars>>

\* _connect: _test_database_connection logs its own failure; the polling task
\* is created and self._task is set to it
DataConnect ==
    /\ poll_tasks < MaxPollTasks
    /\ poll_tasks' = poll_tasks + 1
    /\ data_task' = "running"
    /\ UNCHANGED <<export_file, last_processed_timestamp, subscribed_symbols, handled,
                   removed>>
    /\ UNCHANGED <<feedVars, detectVars, gateVars, simVars, normVars>>

\* _disconnect: cancels the task self._task names, if it is not done
DataDisconnect ==
    /\ IF data_task = "running"
       THEN poll_tasks' = poll_tasks - 1 /\ data_task' = "done"
       ELSE UNCHANGED <<poll_tasks, data_task>>
    /\ UNCHANGED <<export_file, last_processed_timestamp, subscribed_symbols, handled,
                   removed>>
    /\ UNCHANGED <<feedVars, detectVars, gateVars, simVars, normVars>>

\* the scanner replaces the export
ExportWritten(file) ==
    /\ export_file' = file
    /\ UNCHANGED <<last_processed_timestamp, subscribed_symbols, handled, poll_tasks,
                   data_task, removed>>
    /\ UNCHANGED <<feedVars, detectVars, gateVars, simVars, normVars>>

NextData ==
    \/ PollArbitrageOpportunities
    \/ \E symbols \in SUBSET SYMBOLS : SubscribeArbitrageOpportunities(symbols)
    \/ \E symbols \in SUBSET SYMBOLS : UnsubscribeArbitrageOpportunities(symbols)
    \/ DataConnect
    \/ DataDisconnect
    \/ \E file \in ExportFiles : ExportWritten(file)

(***************************************************************************)
(* The state after construction: nothing connected, nothing fetched, the   *)
(* strategy not started.                                                   *)
(***************************************************************************)
Init ==
    /\ venue = "HYPERLIQUID"
    /\ websocket = 0
    /\ tstate = [t \in Transports |-> "free"]
    /\ loops = {}
    /\ pendingLoops = 0
    /\ reconnectRef = FALSE
    /\ rtasks = <<>>
    /\ heartbeat = FALSE
    /\ orphans = 0
    /\ leaked = FALSE
    /\ ext = NoTask
    /\ dc = NoDisc
    /\ response = <<>>
    /\ processed = FALSE
    /\ source_prices = <<>>
    /\ opportunities = NoOpportunities
    /\ published = <<>>
    /\ poll_error = "none"
    /\ running = "initialized"
    /\ active_arbitrages = <<>>
    /\ orders = <<>>
    /\ pending_orders = {}
    /\ hyperliquid_connected = FALSE
    /\ binance_connected = FALSE
    /\ execpc = "idle"
    /\ deliveries = 0
    /\ last = NoOpp
    /\ history = <<>>
    /\ mock_connected = FALSE
    /\ mock_orders = <<>>
    /\ random = FreshRandom
    /\ inbound = NoMessage
    /\ quote_ticks = <<>>
    /\ export_file = NoFile
    /\ last_processed_timestamp = 0
    /\ subscribed_symbols = {}
    /\ handled = <<>>
    /\ poll_tasks = 0
    /\ data_task = "none"
    /\ removed = {}

\* the same with the client class that has no subscription handshake
InitBinance ==
    /\ venue = "BINANCE"
    /\ websocket = 0
    /\ tstate = [t \in Transports |-> "free"]
    /\ loops = {}
    /\ pendingLoops = 0
    /\ reconnectRef = FALSE
    /\ rtasks = <<>>
    /\ heartbeat = FALSE
    /\ orphans = 0
    /\ leaked = FALSE
    /\ ext = NoTask
    /\ dc = NoDisc
    /\ response = <<>>
    /\ processed = FALSE
    /\ source_prices = <<>>
    /\ opportunities = NoOpportunities
    /\ published = <<>>
    /\ poll_error = "none"
    /\ running = "initialized"
    /\ active_arbitrages = <<>>
    /\ orders = <<>>
    /\ pending_orders = {}
    /\ hyperliquid_connected = FALSE
    /\ binance_connected = FALSE
    /\ execpc = "idle"
    /\ deliveries = 0
    /\ last = NoOpp
    /\ history = <<>>
    /\ mock_connected = FALSE
    /\ mock_orders = <<>>
    /\ random = FreshRandom
    /\ inbound = NoMessage
    /\ quote_ticks = <<>>
    /\ export_file = NoFile
    /\ last_processed_timestamp = 0
    /\ subscribed_symbols = {}
    /\ handled = <<>>
    /\ poll_tasks = 0
    /\ data_task = "none"
    /\ removed = {}

(***************************************************************************)
(* Specifications: one per part, the other parts at rest.                  *)
(***************************************************************************)
SpecFeed == Init /\ [][NextFeed]_vars

SpecFeedBinance == InitBinance /\ [][NextFeed]_vars

SpecFeedFair == Init /\ [][NextFeedFair]_vars /\ FairFeed

SpecDetect == Init /\ [][NextDetect]_vars

SpecGate == Init /\ [][NextGate]_vars

\* the gate with a library whose submit_order may raise
NextGateFaults ==
    \/ NextGate
    \/ \E o \in OpportunityMenu, raised_at \in SubmitCalls :
         HandleArbitrageOpportunitySubmitRaises(o, raised_at)

SpecGateFaults == Init /\ [][NextGateFaults]_vars

SpecExec == Init /\ [][NextExec]_vars

SpecMock == Init /\ [][NextMock]_vars

SpecNormalize == Init /\ [][NextNormalize]_vars

SpecData == Init /\ [][NextData]_vars

Next ==
    NextFeed \/ NextDetect \/ NextGate \/ NextExec \/ NextMock \/ NextNormalize
        \/ NextData

Spec == Init /\ [][Next]_vars

(***************************************************************************)
(* Properties of the feed client                                           *)
(***************************************************************************)
BackoffSchedule(k) == Min(Pow2(k - 1), max_backoff)

\* C1: in a reconnect task the delay slept before the k-th attempt is
\* min(2^(k-1), 60); the delays never decrease and never exceed 60, and a task
\* that has not slept yet holds the delay 1.
C1_BackoffSequence ==
    \A i \in DOMAIN rtasks :
        LET r == rtasks[i]
            n == Len(r.slept)
        IN /\ \A k \in 1..n : r.slept[k] = BackoffSchedule(k)
           /\ \A k \in 1..(n - 1) : r.slept[k] <= r.slept[k + 1]
           /\ \A k \in 1..n : r.slept[k] <= max_backoff
           /\ r.backoff <= max_backoff
           /\ n = 0 => r.backoff = 1
           /\ (r.pc = "sleep" /\ n < MaxAttempts) => r.backoff = BackoffSchedule(n + 1)
           /\ (r.pc = "subscribing" /\ n < MaxAttempts) => r.backoff = BackoffSchedule(n)

\* a task has slept 1, 2, 4, 8, 16, 32, 60 and 60
C1_Witness ==
    \E i \in DOMAIN rtasks :
        /\ Len(rtasks[i].slept) >= 8
        /\ rtasks[i].slept[6] = 32
        /\ rtasks[i].slept[7] = 60
        /\ rtasks[i].slept[8] = 60

\* C2: when a disconnect() that was called with a reconnect task live
\* returns, no reconnect task is live any more.
C2_DisconnectCancelsReconnect ==
    [][(dc.pc = "closing" /\ dc.rc /\ dc'.pc = "idle") => rtasks' = <<>>]_vars

\* disconnect() is closing the transport while a reconnect task sleeps
C2_Witness ==
    /\ dc.pc = "closing"
    /\ dc.rc
    /\ \E i \in DOMAIN rtasks : rtasks[i].pc = "sleep"

\* C3: there is never more than one live reconnect task, and a task is live
\* exactly while self._reconnect_task is set.
C3_OneReconnectTask ==
    /\ Len(rtasks) <= 1
    /\ reconnectRef <=> rtasks # <<>>

\* a reconnect task is live and a second message loop is on a transport
\* that closed with an error
C3_Witness ==
    /\ Len(rtasks) = 1
    /\ \E t \in loops : tstate[t] = "closedErr"

\* C4: a live reconnect task eventually ends with its reference cleared; the
\* step that ends it creates the message loop and the heartbeat, and leaves
\* self._websocket open if it still holds the transport the task opened; and
\* a reconnect task is created only when the reference is clear, with the
\* delay 1.
C4_ReconnectEventuallySucceeds ==
    /\ (rtasks # <<>>) ~> (rtasks = <<>> /\ ~reconnectRef)
    /\ [][Len(rtasks') < Len(rtasks)
            => /\ ~reconnectRef'
               /\ pendingLoops' = pendingLoops + 1
               /\ heartbeat'
               /\ (\E i \in DOMAIN rtasks : rtasks[i].t # 0 /\ rtasks[i].t = websocket)
                    => (websocket' # 0 /\ tstate'[websocket'] = "open")]_vars
    /\ [][Len(rtasks') > Len(rtasks)
            => /\ ~reconnectRef
               /\ rtasks'[Len(rtasks')] = NewReconnect]_vars

\* after two failed attempts the third has opened a transport
C4_Witness ==
    \E i \in DOMAIN rtasks :
        /\ rtasks[i].pc = "subscribing"
        /\ tstate[rtasks[i].t] = "open"
        /\ Len(rtasks[i].slept) >= 3

\* C5: when the connect() called on a client that had no transport and no
\* task fails, the client holds no open transport and no message loop,
\* heartbeat or reconnect task exists.
C5_FailedConnectLeavesNothing ==
    [][(ext.pc = "subscribing" /\ ext.fresh /\ ext'.pc = "idle"
        /\ IF ext.t = 0 THEN FALSE ELSE IsClosed(ext.t))
         => /\ \A t \in Transports : tstate'[t] # "open"
            /\ loops' = {}
            /\ pendingLoops' = 0
            /\ ~heartbeat'
            /\ orphans' = 0
            /\ rtasks' = <<>>
            /\ ~reconnectRef']_vars

\* the transport of such a connect() closed before the subscription went out
C5_Witness ==
    /\ ext.pc = "subscribing"
    /\ ext.fresh
    /\ IsClosed(ext.t)

\* C6: when disconnect() returns, the client holds no transport and no
\* heartbeat task is running.
C6_DisconnectLeavesDisconnected ==
    [][(dc.pc = "closing" /\ dc'.pc = "idle")
         => /\ websocket' = 0
            /\ ~heartbeat'
            /\ orphans' = 0]_vars

\* disconnect() is closing the transport while a heartbeat task that the
\* reference no longer points to is running
C6_Witness ==
    /\ dc.pc = "closing"
    /\ orphans > 0

(***************************************************************************)
(* Properties of the gateway detector                                      *)
(***************************************************************************)
\* the price a source's metadata states, exactly, in half cents
ExactPrice(data) ==
    IF "value" \in data.keys THEN 2 * data.value
    ELSE IF data.keys = {"bidPrice", "askPrice"} THEN data.bid + data.ask
    ELSE IF "bidPrice" \in data.keys THEN 2 * data.bid
    ELSE 2 * data.ask

\* the entries of the response that state a price
Priced == {i \in DOMAIN response : HasPrice(response[i].data)}

\* 0 < lo < hi and (hi - lo) / lo >= threshold, in exact arithmetic
QualifiesExactly(lo, hi) ==
    lo > 0 /\ lo < hi /\ (hi - lo) * ThresholdDen >= ThresholdNum * lo

\* 0 < lo <= hi and (hi - lo) / lo < threshold, in exact arithmetic
BelowExactly(lo, hi) ==
    lo > 0 /\ lo <= hi /\ (hi - lo) * ThresholdDen < ThresholdNum * lo

\* the opportunities emitted for the pair of sources a and b
EmittedFor(a, b) ==
    {k \in DOMAIN opportunities :
        {opportunities[k].buy_source, opportunities[k].sell_source} = {a, b}}

\* C7: once a response is processed, every pair of its sources whose prices
\* p1 < p2 have (p2 - p1) / p1 >= threshold, equality included, has exactly
\* one opportunity, which buys at the p1 source for p1 and sells at the p2
\* source for p2 with profit (p2 - p1) / p1.
C7_QualifyingPairEmitted ==
    processed =>
        \A i \in Priced, j \in Priced :
            QualifiesExactly(ExactPrice(response[i].data), ExactPrice(response[j].data))
            => /\ Cardinality(EmittedFor(response[i].source, response[j].source)) = 1
               /\ \A k \in EmittedFor(response[i].source, response[j].source) :
                    LET p1 == ExtractPrice(response[i].data)
                        p2 == ExtractPrice(response[j].data)
                    IN opportunities[k] =
                         [buy_source |-> response[i].source,
                          sell_source |-> response[j].source,
                          buy_price |-> p1, sell_price |-> p2,
                          profit |-> FDiv[FSub[p2, p1], p1]]

\* a processed response with a pair exactly at the threshold
C7_Witness ==
    /\ processed
    /\ \E i \in Priced, j \in Priced :
         LET lo == ExactPrice(response[i].data)
             hi == ExactPrice(response[j].data)
         IN lo > 0 /\ (hi - lo) * ThresholdDen = ThresholdNum * lo

OrdersOf(sym) == {id \in DOMAIN orders : orders[id].symbol = sym}

Terminal(id) == orders[id].state \in {"filled", "rejected"}

\* the handler ran in this step
Delivered == deliveries' # deliveries

\* what _execute_arbitrage turns into two orders when the gate lets it through
Executable(o) == ShouldExecuteArbitrage(o) /\ ~SizingRaises(o)

\* C9: a symbol with a record has the two orders of the recorded opportunity
\* and no others, and an opportunity delivered for a symbol that has a record
\* submits no orders and leaves the records as they are.
C9_OneEngagementPerSymbol ==
    /\ [](\A sym \in ActiveSymbols :
            /\ Cardinality(OrdersOf(sym)) = 2
            /\ \A id \in OrdersOf(sym) :
                 orders[id].delivery = active_arbitrages[sym].delivery)
    /\ [][(Delivered /\ last'.symbol \in ActiveSymbols)
            => (orders' = orders /\ active_arbitrages' = active_arbitrages)]_vars

\* a second opportunity that passes the profit and age checks was delivered
\* for the symbol of the first and found its record
C9_Witness ==
    /\ deliveries = 2
    /\ Executable(last)
    /\ last.symbol \in ActiveSymbols
    /\ active_arbitrages[last.symbol].delivery = 1
    /\ Len(orders) = 2

\* C10: no record outlives its execution, and an opportunity that passes the
\* profit and age checks, delivered for a symbol whose orders have all been
\* filled or rejected, is admitted: its two orders are submitted.
C10_ClearedAtTerminalOutcome ==
    /\ [](\A sym \in ActiveSymbols : \E id \in OrdersOf(sym) : ~Terminal(id))
    /\ [][(/\ Delivered
           /\ Executable(last')
           /\ OrdersOf(last'.symbol) # {}
           /\ \A id \in OrdersOf(last'.symbol) : Terminal(id))
            => Len(orders') = Len(orders) + 2]_vars

\* both orders of the recorded opportunity are filled or rejected, the record
\* is still there and a fresh profitable opportunity for the symbol was
\* turned away
C10_Witness ==
    /\ deliveries = 2
    /\ Executable(last)
    /\ last.symbol \in ActiveSymbols
    /\ active_arbitrages[last.symbol].delivery = 1
    /\ Len(orders) = 2
    /\ \A id \in DOMAIN orders : Terminal(id)

\* the age above which an opportunity is stale, in microseconds
FiveSeconds == MaxAgeMs * MicrosPerMs

\* the three rules of the gate, on the numbers of the opportunity as written
\* in the record
Stale(o) == o.age > FiveSeconds

ProfitBelowMinimum(o) == o.percentage_difference < min_profit_threshold

PassesGate(o) ==
    ~ProfitBelowMinimum(o) /\ ~Stale(o) /\ o.symbol \notin ActiveSymbols

\* the orders submitted for the opportunity delivered last
OrdersOfLast == {id \in DOMAIN orders : orders[id].delivery = deliveries}

\* C11: an opportunity older than five seconds submits no order and leaves
\* no record, whatever its profit; one aged exactly five seconds that meets
\* the other rules, and has a price to size the position with, is executed.
C11_StaleNeverExecuted ==
    [][Delivered =>
         /\ Stale(last') => (orders' = orders /\ active_arbitrages' = active_arbitrages)
         /\ (/\ last'.age = FiveSeconds
             /\ PassesGate(last')
             /\ last'.hyperliquid_price # 0) => Len(orders') = Len(orders) + 2]_vars

\* the first opportunity was aged exactly five seconds and was executed; the
\* second, for another symbol, with a profit above the minimum, was a
\* microsecond older and submitted nothing
C11_Witness ==
    /\ deliveries = 2
    /\ Stale(last)
    /\ last.percentage_difference > min_profit_threshold
    /\ last.symbol \notin ActiveSymbols
    /\ OrdersOfLast = {}
    /\ \E sym \in ActiveSymbols :
         /\ active_arbitrages[sym].delivery = 1
         /\ active_arbitrages[sym].opportunity.age = FiveSeconds

\* C12: an opportunity whose profit is below the minimum of the strategy
\* submits no order and leaves no record; one whose profit equals the
\* minimum, that meets the other rules and has a price to size the position
\* with, is executed.
C12_BelowMinimumRejected ==
    [][Delivered =>
         /\ ProfitBelowMinimum(last')
              => (orders' = orders /\ active_arbitrages' = active_arbitrages)
         /\ (/\ last'.percentage_difference = min_profit_threshold
             /\ PassesGate(last')
             /\ last'.hyperliquid_price # 0) => Len(orders') = Len(orders) + 2]_vars

\* an opportunity with a profit of exactly the minimum was executed; then one
\* for another symbol with 0.49 percent, which is above the 0.2 percent of
\* the detector, submitted nothing
C12_Witness ==
    /\ deliveries = 2
    /\ ProfitBelowMinimum(last)
    /\ last.percentage_difference * ThresholdDen
         >= ThresholdNum * CentsPerUnit * HundredthsPerUnit
    /\ ~Stale(last)
    /\ last.symbol \notin ActiveSymbols
    /\ OrdersOfLast = {}
    /\ \E sym \in ActiveSymbols :
         /\ active_arbitrages[sym].delivery = 1
         /\ active_arbitrages[sym].opportunity.percentage_difference
              = min_profit_threshold

\* the venues of the buy and of the sell order of a direction
BuyVenue(o) == IF o.direction = "BUY_HL_SELL_BN" THEN "HYPERLIQUID" ELSE "BINANCE"

SellVenue(o) == IF o.direction = "BUY_HL_SELL_BN" THEN "BINANCE" ELSE "HYPERLIQUID"

\* C13: an opportunity that passes the three rules of the gate submits exactly
\* two orders, a buy on the buy venue of its direction and a sell on the other
\* venue, of one quantity; any other opportunity submits none.
C13_PassingForwardedOnce ==
    [][Delivered =>
         IF PassesGate(last')
         THEN /\ Len(orders') = Len(orders) + 2
              /\ SubSeq(orders', 1, Len(orders)) = orders
              /\ LET buy == orders'[Len(orders) + 1]
                     sell == orders'[Len(orders) + 2]
                 IN /\ buy.side = "BUY" /\ buy.venue = BuyVenue(last')
                    /\ sell.side = "SELL" /\ sell.venue = SellVenue(last')
                    /\ buy.symbol = last'.symbol /\ sell.symbol = last'.symbol
                    /\ buy.quantity = sell.quantity
         ELSE orders' = orders]_vars

\* an opportunity that passes the rules was delivered and its two orders were
\* submitted; then one with a Hyperliquid price of 0 passed the rules too
C13_Witness ==
    /\ deliveries = 2
    /\ Len(orders) = 2
    /\ ~ProfitBelowMinimum(last) /\ ~Stale(last)
    /\ last.hyperliquid_price = 0
    /\ last.symbol \notin ActiveSymbols

(***************************************************************************)
(* The outcome of a simulated order.                                       *)
(***************************************************************************)
\* the first number the task drew is below 5 in 100, as a fraction
RejectionFired(order) ==
    RandomValues[order.rejection_draw].n * PercentDen
        < RejectionPercent * RandomValues[order.rejection_draw].d

\* the simulation task of the order has run to its end
TaskEnded(order) == order.state # "task"

\* C14: every order the execution simulator accepted has, once its simulation
\* task has run, exactly one terminal outcome: Rejected when the rejection
\* draw fired and Filled otherwise; none is left without one.
C14_AcceptedReachTerminal ==
    \A id \in DOMAIN mock_orders :
        (mock_orders[id].accepted /\ TaskEnded(mock_orders[id]))
            => /\ mock_orders[id].state \in {"rejected", "filled"}
               /\ mock_orders[id].state = "rejected" <=> RejectionFired(mock_orders[id])

\* one accepted order was filled after a draw that rejects nothing, and the
\* task of another ended after such a draw with no outcome
C14_Witness ==
    /\ Len(mock_orders) = 2
    /\ mock_orders[1].accepted /\ mock_orders[1].state = "filled"
    /\ ~RejectionFired(mock_orders[1])
    /\ mock_orders[2].accepted /\ mock_orders[2].state = "not filled"
    /\ ~RejectionFired(mock_orders[2])

\* C15: an order submitted to a client that is not connected takes the
\* rejection path: it is never accepted and never filled, and its task ends
\* in OrderRejected; every other order is accepted.
C15_UnconnectedRejected ==
    \A id \in DOMAIN mock_orders :
        /\ ~mock_orders[id].connected
              => /\ ~mock_orders[id].accepted
                 /\ mock_orders[id].state # "filled"
                 /\ TaskEnded(mock_orders[id]) => mock_orders[id].state = "rejected"
        /\ mock_orders[id].connected => mock_orders[id].accepted

\* an order that came in while the client was connected was accepted, and one
\* that came in after disconnect() was accepted and filled
C15_Witness ==
    /\ Len(mock_orders) = 2
    /\ mock_orders[1].connected /\ mock_orders[1].accepted
    /\ ~mock_connected
    /\ ~mock_orders[2].connected /\ mock_orders[2].accepted
    /\ mock_orders[2].state = "filled"

(***************************************************************************)
(* disconnect() and the tasks that are asleep.                             *)
(***************************************************************************)
\* the events emitted for an order so far
Emitted(order) ==
    IF order.state = "accepted" THEN {"OrderAccepted"}
    ELSE IF order.state = "filled" THEN {"OrderAccepted", "OrderFilled"}
    ELSE IF order.state = "rejected" THEN {"OrderRejected"}
    ELSE {}

\* C16: once disconnect() has been called while the task of an order was in
\* one of its simulated delays, no OrderAccepted and no OrderFilled is emitted
\* for that order.
C16_DisconnectCancelsTasks ==
    [][\A id \in DOMAIN history :
          history[id].cut
              => Emitted(orders'[id]) \cap {"OrderAccepted", "OrderFilled"}
                     \subseteq Emitted(orders[id])]_vars

\* disconnect() was called during the first delay of an order, and the order
\* was accepted and filled after it
C16_Witness ==
    /\ Len(orders) >= 1
    /\ 1 \in DOMAIN history
    /\ history[1].cut
    /\ ~hyperliquid_connected /\ ~binance_connected
    /\ orders[1].state = "filled"

(***************************************************************************)
(* The price of a fill against the price it starts from, as decimals.      *)
(***************************************************************************)
\* a decimal as a whole number of units of 10^-MaxPlaces
Units[d \in Decimal] == BigMul[d.n, BigPow[10, MaxPlaces - d.k]]

\* a price in ten-thousandths, in the same units
PriceUnits(price) == Units[[n |-> Big(price), k |-> 4]]

Distance[a \in BigNat, b \in BigNat] == IF BigLess[a, b] THEN BigSub[b, a] ELSE BigSub[a, b]

\* |fill - base| <= base * 5 / 10000
WithinBand(fill, base) ==
    ~BigLess[BigMulLimb[PriceUnits(base), SlippageNum],
             BigMulLimb[Distance[Units[fill], PriceUnits(base)], SlippageDen]]

\* the draw that makes uniform(-0.0005, 0.0005) zero: one half
SlippageZero(order) ==
    RandomValues[order.slippage_draw].n * 2 = RandomValues[order.slippage_draw].d

\* C17: the price of every fill is within 0.05% of the limit price of the
\* order, or of the reference price when the order has no limit price; and
\* with a slippage of 0 it is the limit price exactly.
C17_FillWithinBand ==
    \A id \in DOMAIN mock_orders :
        mock_orders[id].state = "filled"
            => /\ WithinBand(mock_orders[id].fill, BasePrice(mock_orders[id].price))
               /\ (SlippageZero(mock_orders[id]) /\ mock_orders[id].price # 0)
                     => Units[mock_orders[id].fill] = PriceUnits(mock_orders[id].price)

\* an order with a limit price was filled with a slippage of 0 at that price,
\* and one without a limit price was filled off the reference price, within
\* the band
C17_Witness ==
    /\ Len(mock_orders) = 2
    /\ mock_orders[1].state = "filled" /\ mock_orders[1].price # 0
    /\ SlippageZero(mock_orders[1])
    /\ Units[mock_orders[1].fill] = PriceUnits(mock_orders[1].price)
    /\ mock_orders[2].state = "filled" /\ mock_orders[2].price = 0
    /\ ~SlippageZero(mock_orders[2])
    /\ Units[mock_orders[2].fill] # PriceUnits(MarketPrice)
    /\ WithinBand(mock_orders[2].fill, MarketPrice)

(***************************************************************************)
(* The quote ticks of the feeds.                                           *)
(***************************************************************************)
\* the symbols the inbound message names
InboundSymbols ==
    IF inbound.venue = "HYPERLIQUID"
    THEN {inbound.msg.mids[i].symbol : i \in DOMAIN inbound.msg.mids}
    ELSE IF inbound.venue = "BINANCE" /\ "s" \in inbound.msg.ticker.keys
    THEN {BaseSymbol(inbound.msg.ticker.s)}
    ELSE {}

FeedTicks == {i \in DOMAIN quote_ticks : quote_ticks[i].venue \in {"HYPERLIQUID", "BINANCE"}}

\* C18: a message, or an entry of an allMids message, whose symbol is not in
\* the configured symbol list gives no quote tick, on the Hyperliquid feed and
\* on the Binance feed.
C18_OutsideUniverseSkipped ==
    \A i \in FeedTicks : quote_ticks[i].symbol \in SYMBOLS

\* an allMids message with an entry outside the list and one inside it gave
\* the one quote tick
C18_Witness ==
    /\ inbound.venue = "HYPERLIQUID"
    /\ InboundSymbols \ SYMBOLS # {}
    /\ InboundSymbols \cap SYMBOLS # {}
    /\ Len(quote_ticks) = 1
    /\ quote_ticks[1].symbol \in SYMBOLS

\* the ticker that came in lacks a price or a size
MissingSide ==
    /\ inbound.venue = "BINANCE"
    /\ inbound.msg.form = "object"
    /\ {"b", "a", "B", "A"} \ inbound.msg.ticker.keys # {}

\* C19: a message with a missing side (no bid, no ask or no size) gives no
\* quote tick: none is published with a default in the place of the price or
\* size that is missing.
C19_MissingSideSkipped == MissingSide => quote_ticks = <<>>

\* a ticker with its symbol and both prices and sizes gave a quote tick with
\* these, and so did not stand in the way of the rule
C19_Witness ==
    /\ inbound.venue = "BINANCE"
    /\ "s" \in inbound.msg.ticker.keys
    /\ ~MissingSide
    /\ Len(quote_ticks) = 1
    /\ quote_ticks[1].bid_size = inbound.msg.ticker.B
    /\ quote_ticks[1].bid_price = PriceFromStr(inbound.msg.ticker.b)

\* both prices of the quote ticks of the inbound message come from it
BothSidesKnown ==
    inbound.venue = "BINANCE" => {"b", "a"} \subseteq inbound.msg.ticker.keys

\* C20: the bid price of every quote tick published is at most its ask price
\* when both are known, whatever the message held, the two quote ticks the
\* gateway client makes of an opportunity included.
C20_BidAtMostAsk ==
    BothSidesKnown
        => \A i \in DOMAIN quote_ticks :
              ~BigLess[Units[quote_ticks[i].ask_price], Units[quote_ticks[i].bid_price]]

\* the gateway client published the two quote ticks of an opportunity, each
\* with its bid below its ask
C20_Witness ==
    /\ inbound.venue = "GATEWAY"
    /\ Len(quote_ticks) = 2
    /\ \A i \in DOMAIN quote_ticks :
          BigLess[Units[quote_ticks[i].bid_price], Units[quote_ticks[i].ask_price]]

\* C21: every quote tick made of an allMids message of the mid-only
\* Hyperliquid feed has its bid price and its ask price equal to the mid the
\* message reports for the symbol, and a bid size and an ask size of zero.
C21_MidOnlyQuote ==
    inbound.venue = "HYPERLIQUID"
        => \A i \in DOMAIN quote_ticks :
              /\ quote_ticks[i].bid_size = 0
              /\ quote_ticks[i].ask_size = 0
              /\ \E j \in DOMAIN inbound.msg.mids :
                    /\ inbound.msg.mids[j].symbol = quote_ticks[i].symbol
                    /\ ~inbound.msg.mids[j].bad
                    /\ quote_ticks[i].bid_price = PriceFromStr(inbound.msg.mids[j].mid)
                    /\ quote_ticks[i].ask_price = PriceFromStr(inbound.msg.mids[j].mid)

\* an allMids message with two symbols of the list gave two quote ticks with
\* different mids, each with no size
C21_Witness ==
    /\ inbound.venue = "HYPERLIQUID"
    /\ Len(quote_ticks) = 2
    /\ quote_ticks[1].bid_price # quote_ticks[2].bid_price
    /\ \A i \in DOMAIN quote_ticks :
          /\ quote_ticks[i].bid_price = quote_ticks[i].ask_price
          /\ quote_ticks[i].bid_size = 0
          /\ quote_ticks[i].ask_size = 0

\* the feed client is handed the message it was handed just before
ReplayStep ==
    /\ inbound'.venue \in {"HYPERLIQUID", "BINANCE"}
    /\ inbound'.venue = inbound.venue
    /\ inbound'.msg = inbound.msg

\* C22: the normalizer is a pure function of the raw message: handling the
\* same message a second time gives quote ticks equal to the first ones in
\* every field, the event time and the ingest time included.
C22_ReplayEqual == [][ReplayStep => quote_ticks' = quote_ticks]_vars

\* a message was handled a second time, at a later reading of the clock, and
\* gave a quote tick with that reading as its ingest time
C22_Witness ==
    /\ inbound.again
    /\ inbound.venue \in {"HYPERLIQUID", "BINANCE"}
    /\ inbound.at > 1
    /\ quote_ticks # <<>>
    /\ quote_ticks[1].ts_init = inbound.at

\* a feed client has handled a frame that is no JSON object
BadFrame(in) == in.venue \in {"HYPERLIQUID", "BINANCE"} /\ in.msg.form # "object"

\* C26: a bad inbound message never ends the connection: no exception leaves
\* _process_message for the message loop, the message gives no quote tick,
\* and the state of the connection is as it was.
C26_BadMessageDropped ==
    [][/\ inbound'.raised = "none"
       /\ BadFrame(inbound') => quote_ticks' = <<>> /\ UNCHANGED feedVars]_vars

\* the loop went on after a bad frame: a frame that is no JSON object was
\* handled right after another one, and nothing was raised or published
C26_Witness ==
    /\ BadFrame(inbound)
    /\ inbound.again
    /\ inbound.msg.form = "array"
    /\ inbound.raised = "none"
    /\ quote_ticks = <<>>

\* the price kept for a source is the quote the source sent: each side the
\* quote carries is the float of that side
KeepsQuote(price, data) ==
    IF "value" \in data.keys THEN price = ParseFloat(data.value, CentsPerUnit)
    ELSE /\ "bidPrice" \in data.keys => price = ParseFloat(data.bid, CentsPerUnit)
         /\ "askPrice" \in data.keys => price = ParseFloat(data.ask, CentsPerUnit)

\* C23: the mapping of sources to quotes the detector reads is a last-value
\* cache: for every source that has quoted it returns the quote the source
\* sent last, unchanged.
C23_LastQuoteUnchanged ==
    processed
        => \A n \in DOMAIN response :
              HasPrice(response[n].data)
                  => \E i \in DOMAIN source_prices :
                        /\ source_prices[i].source = response[n].source
                        /\ KeepsQuote(source_prices[i].price, response[n].data)

\* three sources quoted, one of them with a bid alone, and the mapping holds
\* the quote of each as it was sent
C23_Witness ==
    /\ processed
    /\ Len(response) = 3
    /\ Len(source_prices) = 3
    /\ \E n \in DOMAIN response : response[n].data.keys = {"bidPrice"}
    /\ \A n \in DOMAIN response :
          /\ source_prices[n].source = response[n].source
          /\ KeepsQuote(source_prices[n].price, response[n].data)

\* the task of the order has drawn its numbers
Drawn(o) == o.state \in {"rejected", "filled", "not filled"}

\* how many numbers the task of the order took from the generator
Used(o) == IF o.state = "rejected" THEN 1 ELSE IF o.state = "filled" THEN 3 ELSE 2

\* the numbers the tasks of this client took before position p, from order i on
RECURSIVE OwnBefore(_, _)
OwnBefore(p, i) ==
    IF i > Len(mock_orders) THEN 0
    ELSE (IF Drawn(mock_orders[i]) /\ mock_orders[i].position < p
          THEN Used(mock_orders[i]) ELSE 0) + OwnBefore(p, i + 1)

\* C24: the outcomes of the simulator come from a random source of its own,
\* injected and seedable: with the same state of the source and the same
\* orders, every run gives the same outcomes and fill prices.  The numbers
\* an order gets are then those the source gives after the numbers the
\* simulator's earlier orders took, and after no others.
C24_OwnRandomSource ==
    \A id \in DOMAIN mock_orders :
        Drawn(mock_orders[id]) => mock_orders[id].position = OwnBefore(mock_orders[id].position, 1)

\* two orders of this client drew their numbers after the other venue's
\* client had drawn from the generator, the second at a place that the
\* orders of this client do not account for
C24_Witness ==
    /\ Len(mock_orders) = 2
    /\ \A id \in DOMAIN mock_orders : mock_orders[id].state = "filled"
    /\ random.elsewhere = 1
    /\ mock_orders[1].position = 0
    /\ mock_orders[2].position > Used(mock_orders[1])

\* connected, and nothing else under way: the attribute holds a transport
\* with a message loop on it, no connect, disconnect or reconnect is running
Connected ==
    /\ websocket # 0
    /\ websocket \in loops
    /\ ext.pc = "idle"
    /\ dc.pc = "idle"
    /\ ~reconnectRef
    /\ rtasks = <<>>

\* the message loop of the connection ends on a transport the peer closed
LoopEndsOnClose ==
    /\ Connected
    /\ IsClosed(websocket)
    /\ Cardinality(loops') < Cardinality(loops)
    /\ websocket' # 0
    /\ websocket' \notin loops'

\* C25: when the peer closes the transport of a connected client, cleanly or
\* with an error, the message loop ends and a reconnect task is scheduled.
C25_CloseStartsReconnect ==
    [][LoopEndsOnClose => reconnectRef' /\ rtasks' # <<>>]_vars

\* the message loop of a connected client has ended on a transport the peer
\* closed with an error, and the reconnect task it created sleeps
C25_Witness ==
    /\ websocket # 0
    /\ tstate[websocket] = "closedErr"
    /\ websocket \notin loops
    /\ reconnectRef
    /\ Len(rtasks) = 1
    /\ rtasks[1].pc = "sleep"
    /\ dc.pc = "idle"

\* a heartbeat task ends while no disconnect() is running: its send() raised
HeartbeatEnds ==
    /\ dc.pc = "idle"
    /\ dc'.pc = "idle"
    /\ \/ heartbeat /\ ~heartbeat'
       \/ orphans' < orphans

\* C27: when the send of a heartbeat fails, the heartbeat loop ends and
\* nothing else changes: the transport reference, the transports, the
\* message loops and the reconnect task are as they were, so a heartbeat
\* starts no reconnect and no disconnect.
C27_HeartbeatFailureFrame ==
    [][HeartbeatEnds
          => UNCHANGED <<websocket, tstate, loops, pendingLoops, reconnectRef, rtasks,
                         ext, dc, leaked>>]_vars

\* the heartbeat has ended on a transport the peer closed, while the message
\* loop has not yet seen the closure and no reconnect task exists
C27_Witness ==
    /\ ~heartbeat
    /\ orphans = 0
    /\ websocket # 0
    /\ IsClosed(websocket)
    /\ websocket \in loops
    /\ ~reconnectRef
    /\ rtasks = <<>>
    /\ dc.pc = "idle"

\* what the source sent in the response
DataOf(source) ==
    LET n == CHOOSE i \in DOMAIN response : response[i].source = source
    IN response[n].data

\* the source sent a bid and an ask, and no 'value' in their place
TwoSided(source) == DataOf(source).keys = {"bidPrice", "askPrice"}

\* C28: an opportunity prices a venue that sent both a bid and an ask with
\* the ask where it buys there and with the bid where it sells there.
C28_SidePrices ==
    \A k \in DOMAIN opportunities :
        /\ TwoSided(opportunities[k].buy_source)
              => opportunities[k].buy_price
                    = ParseFloat(DataOf(opportunities[k].buy_source).ask, CentsPerUnit)
        /\ TwoSided(opportunities[k].sell_source)
              => opportunities[k].sell_price
                    = ParseFloat(DataOf(opportunities[k].sell_source).bid, CentsPerUnit)

\* an opportunity buys at a venue that sent a bid and an ask, and another
\* sells at it
C28_Witness ==
    /\ \E k \in DOMAIN opportunities : TwoSided(opportunities[k].buy_source)
    /\ \E k \in DOMAIN opportunities : TwoSided(opportunities[k].sell_source)

\* the mapping with its entries in another order of insertion
Reordered(sp, f) == [i \in DOMAIN sp |-> sp[f[i]]]

\* the opportunities as a set
Range(seq) == {seq[i] : i \in DOMAIN seq}

\* C29: detection is a function of the snapshot: the same mapping of venues
\* to prices gives the same opportunities in the same order, in whatever
\* order the venues were inserted.
C29_OrderIndependent ==
    (processed /\ Len(source_prices) >= 2)
        => \A f \in Permutations(DOMAIN source_prices) :
              FindArbitrageOpportunities(Reordered(source_prices, f)) = opportunities

\* a snapshot gave two opportunities or more, and with its venues inserted in
\* another order it gives the same opportunities in another order
C29_Witness ==
    /\ processed
    /\ Len(opportunities) >= 2
    /\ \E f \in Permutations(DOMAIN source_prices) :
          /\ FindArbitrageOpportunities(Reordered(source_prices, f)) # opportunities
          /\ Range(FindArbitrageOpportunities(Reordered(source_prices, f)))
                = Range(opportunities)

\* the sources of the response whose data gives a price above zero
UsableSources ==
    {n \in DOMAIN response :
        HasPrice(response[n].data) /\ PositiveMin(ExtractPrice(response[n].data))}

\* C30: a poll in which fewer than two venues have a usable price gives no
\* opportunity and publishes no quote.
C30_FewerThanTwoNothing ==
    (processed /\ Cardinality(UsableSources) < 2)
        => opportunities = NoOpportunities /\ published = <<>>

\* three sources answered, one with a usable price, one with a price of zero
\* or less and one with none, and nothing was found or published
C30_Witness ==
    /\ processed
    /\ Len(response) = 3
    /\ Cardinality(UsableSources) = 1
    /\ Len(source_prices) = 2
    /\ opportunities = NoOpportunities
    /\ published = <<>>

\* the pairs of the mapping the detector has to emit by its own arithmetic:
\* lower price above zero and the float quotient at or above the threshold
DetectorPairs ==
    {p \in (DOMAIN source_prices) \X (DOMAIN source_prices) :
        /\ p[1] < p[2]
        /\ PositiveMin(FMin[source_prices[p[1]].price, source_prices[p[2]].price])
        /\ MeetsThreshold(
              FDiv[FSub[FMax[source_prices[p[1]].price, source_prices[p[2]].price],
                        FMin[source_prices[p[1]].price, source_prices[p[2]].price]],
                   FMin[source_prices[p[1]].price, source_prices[p[2]].price]])}

\* a source of the mapping has a price of zero or less
NonPositiveSources == {i \in DOMAIN source_prices : source_prices[i].price.s # 1}

\* C31: the profit is computed only when the lower price is above zero: a
\* pair whose lower price is zero or negative gives no opportunity and no
\* division error, and the other pairs of the snapshot are still evaluated.
C31_GuardedDivision ==
    processed
        => /\ poll_error = "none"
           /\ \A k \in DOMAIN opportunities : opportunities[k].buy_price.s = 1
           /\ \A p \in DetectorPairs :
                 EmittedFor(source_prices[p[1]].source, source_prices[p[2]].source) # {}

\* a snapshot with a price of zero and two prices above it that qualify: the
\* one opportunity is that of the two
C31_Witness ==
    /\ processed
    /\ Len(source_prices) = 3
    /\ \E i \in NonPositiveSources : source_prices[i].price.s = 0
    /\ Len(opportunities) = 1
    /\ Cardinality(DetectorPairs) = 1

\* the places of an event among the events of an order
Places(events, event) == {i \in DOMAIN events : events[i] = event}

LiveHeartbeats == (IF heartbeat THEN 1 ELSE 0) + orphans

\* C34: at most one heartbeat loop of the connection is live at any time,
\* over any sequence of connect, closure, reconnect and disconnect.
C34_OneHeartbeat == LiveHeartbeats <= 1

\* one heartbeat is live on the open transport of a connected client whose
\* earlier transport was closed by the peer
C34_Witness ==
    /\ LiveHeartbeats = 1
    /\ websocket # 0
    /\ tstate[websocket] = "open"
    /\ websocket \in loops
    /\ \E t \in Transports : t # websocket /\ IsClosed(t)

\* the transports that are open
OpenTransports == {t \in Transports : tstate[t] = "open"}

\* C35: the connection owns at most one open transport and at most one
\* running message loop at any time, over any interleaving of connect(),
\* disconnect(), closures and the reconnect task.
C35_OneTransportOneLoop ==
    /\ Cardinality(OpenTransports) <= 1
    /\ Cardinality(loops) <= 1

\* a new transport is open with the one message loop on it, after an earlier
\* transport was closed and its loop has ended
C35_Witness ==
    /\ OpenTransports = {websocket}
    /\ loops = {websocket}
    /\ \E t \in Transports : IsClosed(t)

\* C36: a handler run that submits an order of an attempt leaves a record for
\* the attempt's symbol; when the size computation or a submit_order call
\* raises, either no order went out or the record is there.
C36_RecordedWhenSubmitted ==
    [][(Delivered /\ orders' # orders) => last'.symbol \in DOMAIN active_arbitrages']_vars

\* the second submit_order call raised: the first order is out, the symbol has
\* no record
C36_Witness ==
    /\ deliveries = 1
    /\ Len(orders) = 1
    /\ orders[1].symbol = last.symbol
    /\ last.symbol \notin ActiveSymbols
    /\ running = "running"


(***************************************************************************)
(* Properties of the data client                                           *)
(***************************************************************************)
\* the records a poll owes: those above the watermark the poll starts with
Newer(record) == record.timestamp > last_processed_timestamp

Due == SelectSeq(export_file.data, Newer)

DueOpportunities == [i \in DOMAIN Due |-> FetchedOpportunity(Due[i])]

WellFormedList ==
    /\ export_file.state = "list"
    /\ \A i \in DOMAIN export_file.data : export_file.data[i].well_formed

\* C37: with no symbol filter, a poll of a well-formed export hands over every
\* record whose timestamp is above the watermark the poll started with, each
\* once, whatever their order and also when timestamps are equal; the watermark
\* never decreases and ends at or above every record handed over, so that no
\* later poll hands one over again.
C37_EveryNewRecordOnce ==
    [][(PollArbitrageOpportunities /\ subscribed_symbols = {} /\ WellFormedList)
        => /\ handled' = DueOpportunities
           /\ last_processed_timestamp' >= last_processed_timestamp
           /\ \A i \in DOMAIN handled' :
                handled'[i].timestamp_ns <= last_processed_timestamp' * NanosPerMs]_vars

\* a poll of two records, the second not newer than the first, handed over
\* the first alone and moved the watermark to it
C37_Witness ==
    /\ subscribed_symbols = {}
    /\ WellFormedList
    /\ Len(export_file.data) = 2
    /\ export_file.data[2].timestamp <= export_file.data[1].timestamp
    /\ handled = <<FetchedOpportunity(export_file.data[1])>>
    /\ last_processed_timestamp = export_file.data[1].timestamp

\* C38: a poll hands over no opportunity for a symbol that an unsubscribe call
\* removed and no subscribe call has named since, also when the symbol was the
\* last one subscribed.
C38_NothingForUnsubscribed ==
    [][PollArbitrageOpportunities
        => \A i \in DOMAIN handled' : handled'[i].symbol \notin removed]_vars

\* the last subscribed symbol was removed and a poll handed over an
\* opportunity for it
C38_Witness ==
    /\ subscribed_symbols = {}
    /\ removed # {}
    /\ \E i \in DOMAIN handled : handled[i].symbol \in removed


\* the quote _publish_arbitrage_opportunity makes for a leg of o is on the bus
BuyLegPublished(o) ==
    \E n \in DOMAIN published :
        published[n] = [source |-> o.buy_source, leg |-> "buy", price |-> o.buy_price]

SellLegPublished(o) ==
    \E n \in DOMAIN published :
        published[n] = [source |-> o.sell_source, leg |-> "sell", price |-> o.sell_price]

\* C39: of every opportunity the detector emits, either the quotes of both
\* venues are published or none is, whatever the names of the two sources.
C39_BothLegsOrNeither ==
    \A k \in DOMAIN opportunities :
        BuyLegPublished(opportunities[k]) <=> SellLegPublished(opportunities[k])

\* an opportunity between a source that has an instrument and one that has
\* none was emitted, and the quote of the first alone was published
C39_Witness ==
    /\ processed
    /\ \E k \in DOMAIN opportunities :
         LET o == opportunities[k]
         IN /\ (o.buy_source \in common_sources) # (o.sell_source \in common_sources)
            /\ BuyLegPublished(o) # SellLegPublished(o)


\* the await of _subscribe_to_all_mids returns in this step, in the connect()
\* task or in a reconnect task, on a transport that is open
SubscribeReturns ==
    \/ ext.pc = "subscribing" /\ tstate[ext.t] = "open" /\ ext'.pc = "idle"
    \/ \E i \in DOMAIN rtasks :
         /\ rtasks[i].pc = "subscribing"
         /\ tstate[rtasks[i].t] = "open"
         /\ Len(rtasks') = Len(rtasks) - 1

\* the message loop and the heartbeat are created in this step
TasksCreated == pendingLoops' > pendingLoops

\* C40: on the Hyperliquid feed the message loop of a connect or a reconnect is
\* created only in the step in which the allMids subscription sent on the
\* newly opened transport returns, and a reconnect counts as done only then:
\* reading never resumes on a transport the subscription was not sent on.
C40_SubscribedBeforeReading ==
    [][(venue = "HYPERLIQUID" /\ TasksCreated) => SubscribeReturns]_vars

\* a _connect that followed an earlier one (the heartbeat of the earlier is
\* still there) has opened a transport, its subscription has returned, and the
\* message loop created for it waits to run
C40_Witness ==
    /\ venue = "HYPERLIQUID"
    /\ websocket # 0
    /\ tstate[websocket] = "open"
    /\ websocket \notin loops
    /\ pendingLoops = 1
    /\ orphans >= 1
    /\ ext.pc = "idle"
    /\ rtasks = <<>>
    /\ ~reconnectRef

====
